---- MODULE Spec2Model ----
(***************************************************************************)
(* A model of foreman: manifest aggregation (config.rs), asset selection   *)
(* and the tool cache (tool_cache.rs), the install subcommand and shim     *)
(* mode (main.rs), and the Unix process runner (process/unix.rs).          *)
(*                                                                         *)
(* Strings are sequences of one-character strings, so that substring       *)
(* search, replacement, lower-casing, byte order and the formatting and    *)
(* parsing of versions are computed as the code computes them.             *)
(***************************************************************************)
EXTENDS Integers, Sequences, FiniteSets, TLC

VARIABLES
    \* ConfigFile::aggregate
    dirs,               \* foreman.toml of the working directory and of each ancestor
    user_config,        \* foreman.toml of the root directory (paths.user_config())
    aggregated,         \* the result of ConfigFile::aggregate
    \* choose_asset
    sel_assets,         \* release.assets, the names in listed order
    sel_keywords,       \* platform_keywords
    chosen,             \* the result of choose_asset
    \* the root directory
    index_file,         \* tool-cache.json
    tools_dir,          \* tools/: the files and their modes
    bin_dir,            \* bin/: the shims
    \* one invocation of the manager
    pc,
    argv,               \* argv[1] is the executable's file stem
    world,              \* the working directory and the manifests the invocation finds
    config,             \* the aggregated manifest of the invocation
    cache,              \* ToolCache.tools of the invocation
    pending,            \* install: the aliases still to visit, in key order
    tools_not_downloaded,
    log,                \* install: how each tool visited so far went
    last,               \* the latest download_if_necessary call and its result
    provider_log,       \* the provider calls of that call
    child,              \* the child process spawned by ToolCache::run
    exit_status,        \* the manager's exit status
    error,              \* the error printed by exit_with_error
    runs,               \* the invocations started so far
    \* process::run (Unix)
    run_pc,             \* where run is
    signals,            \* registered signals delivered and not yet read
    signal_thread,      \* the thread that reads one signal
    signal_handle,      \* open, or closed
    kill_rx,            \* the one-shot channel: what was sent on it, if anything
    run_child,          \* the child process
    run_out,            \* how run ended: a code returned, an error, or exit(status)
    received,           \* the signal the thread read, and where run was then
    \* installs running at the same time on one root
    procs,              \* each install process: where it is, its manifest, its cache
    last_writer,        \* the process whose write of tool-cache.json ended last
    installs,           \* how many installs were started
    \* ToolSpec::from_value and cache_key
    tool_value,         \* the toml value of one entry of [tools]
    host_map,           \* the host table the entry is read with
    parsed,             \* the result of ToolSpec::from_value
    cache_key,          \* the result of cache_key on the parsed specification
    \* GithubProvider::get_releases
    gh_next,            \* next_url
    gh_all,             \* all_releases
    gh_log,             \* the URLs requested, in order
    gh_pages,           \* the responses received, in order
    gh_out,             \* how get_releases ended
    \* ArtifactoryProvider::get_releases
    art_files,          \* response.files: the URIs the storage API listed
    art_out,            \* how get_releases ended
    \* ForemanPaths::create_all
    foreman_home,       \* the root directory: its directories, foreman.toml, auth.toml
    create_all_out,     \* how the calls of create_all went
    \* cache_key and tool_identifier_to_exe_name of two specifications
    spec_pair,          \* the two tool specifications
    key_pair,           \* their cache keys and executable names, once computed
    \* generate_artifactory_path
    path_args,          \* the arguments of the call
    path_out,           \* the path or the error, once returned
    \* download on two orders of one collection of releases
    release_lists,      \* the two lists the provider may return
    selected,           \* what download picked on each, once called
    \* artifactory-auth and the lookup of the provider
    auth_file,          \* artifactory-auth.json
    auth_host,          \* the URL of the host of a tool
    auth_stored,        \* the url and token artifactory-auth was called with
    auth_found,         \* what get_credentials returned for the host, once called
    \* GitlabProvider::get_releases
    gl_tool,            \* the tool specification download lists the releases of
    gl_token,           \* the gitlab token of auth.toml, if any
    gl_request,         \* the request sent: its url and its token header
    gl_out,             \* how get_releases ended
    \* Shims of tools whose specifications differ in the case of the path
    variant_last,       \* the last shim: its tool, the version found, the file it runs
    variant_shims       \* the number of shims so far

aggVars == <<dirs, user_config, aggregated>>
selVars == <<sel_assets, sel_keywords, chosen>>
rootVars == <<index_file, tools_dir, bin_dir>>
invVars == <<pc, argv, world, config, cache, pending, tools_not_downloaded, log, last,
             provider_log, child, exit_status, error, runs>>
runVars == <<run_pc, signals, signal_thread, signal_handle, kill_rx, run_child, run_out,
             received>>
concVars == <<procs, last_writer, installs>>
toolVars == <<tool_value, host_map, parsed, cache_key>>
ghVars == <<gh_next, gh_all, gh_log, gh_pages, gh_out>>
artVars == <<art_files, art_out>>
pathVars == <<foreman_home, create_all_out>>
keyVars == <<spec_pair, key_pair>>
apathVars == <<path_args, path_out>>
pickVars == <<release_lists, selected>>
authVars == <<auth_file, auth_host, auth_stored, auth_found>>
glVars == <<gl_tool, gl_token, gl_request, gl_out>>
variantVars == <<variant_last, variant_shims>>
vars ==
    <<aggVars, selVars, rootVars, invVars, runVars, concVars, toolVars, ghVars,
      artVars, pathVars, keyVars, apathVars, pickVars, authVars, glVars, variantVars>>

\* What the steps of each specification leave alone
offInvocation ==
    <<aggVars, selVars, runVars, concVars, toolVars, ghVars, artVars, pathVars,
      keyVars, apathVars, pickVars, authVars, glVars, variantVars>>
offAggregate ==
    <<selVars, rootVars, invVars, runVars, concVars, toolVars, ghVars, artVars,
      pathVars, keyVars, apathVars, pickVars, authVars, glVars, variantVars>>
offChoose ==
    <<aggVars, rootVars, invVars, runVars, concVars, toolVars, ghVars, artVars,
      pathVars, keyVars, apathVars, pickVars, authVars, glVars, variantVars>>
offRun ==
    <<aggVars, selVars, rootVars, invVars, concVars, toolVars, ghVars, artVars,
      pathVars, keyVars, apathVars, pickVars, authVars, glVars, variantVars>>
offConcurrent ==
    <<aggVars, selVars, invVars, runVars, toolVars, ghVars, artVars, pathVars, keyVars,
      apathVars, pickVars, authVars, glVars, variantVars>>
offToolSpec ==
    <<aggVars, selVars, rootVars, invVars, runVars, concVars, ghVars, artVars,
      pathVars, keyVars, apathVars, pickVars, authVars, glVars, variantVars>>
offGithub ==
    <<aggVars, selVars, rootVars, invVars, runVars, concVars, toolVars, artVars,
      pathVars, keyVars, apathVars, pickVars, authVars, glVars, variantVars>>
offArtifactory ==
    <<aggVars, selVars, rootVars, invVars, runVars, concVars, toolVars, ghVars,
      pathVars, keyVars, apathVars, pickVars, authVars, glVars, variantVars>>
offCreateAll ==
    <<aggVars, selVars, rootVars, invVars, runVars, concVars, toolVars, ghVars,
      artVars, keyVars, apathVars, pickVars, authVars, glVars, variantVars>>
offCacheKeys ==
    <<aggVars, selVars, rootVars, invVars, runVars, concVars, toolVars, ghVars,
      artVars, pathVars, apathVars, pickVars, authVars, glVars, variantVars>>
offArtifactoryPath ==
    <<aggVars, selVars, rootVars, invVars, runVars, concVars, toolVars, ghVars,
      artVars, pathVars, keyVars, pickVars, authVars, glVars, variantVars>>
offPick ==
    <<aggVars, selVars, rootVars, invVars, runVars, concVars, toolVars, ghVars,
      artVars, pathVars, keyVars, apathVars, authVars, glVars, variantVars>>
offAuth ==
    <<aggVars, selVars, rootVars, invVars, runVars, concVars, toolVars, ghVars,
      artVars, pathVars, keyVars, apathVars, pickVars, glVars, variantVars>>
offGitlab ==
    <<aggVars, selVars, rootVars, invVars, runVars, concVars, toolVars, ghVars,
      artVars, pathVars, keyVars, apathVars, pickVars, authVars, variantVars>>
offVariants ==
    <<aggVars, selVars, invVars, runVars, concVars, toolVars, ghVars, artVars,
      pathVars, keyVars, apathVars, pickVars, authVars, glVars>>

----------------------------------------------------------------------------
\* Option values

None == <<>>

Some(x) == <<x>>

----------------------------------------------------------------------------
\* Strings

\* The characters in use, in byte order.
Ascii ==
    << "-", ".", "/", "0", "1", "2", "3", "4", "5", "6", "7", "8", "9", ":", "@",
       "A", "B", "C", "D", "E", "F", "G", "H", "I", "J", "K", "L", "M", "N",
       "O", "P", "Q", "R", "S", "T", "U", "V", "W", "X", "Y", "Z", "\\", "_",
       "a", "b", "c", "d", "e", "f", "g", "h", "i", "j", "k", "l", "m", "n",
       "o", "p", "q", "r", "s", "t", "u", "v", "w", "x", "y", "z" >>

Code(c) == CHOOSE i \in 1..Len(Ascii) : Ascii[i] = c

Upper == SubSeq(Ascii, Code("A"), Code("Z"))

Lower == SubSeq(Ascii, Code("a"), Code("z"))

\* char::to_lowercase
ToLowerChar(c) ==
    IF \E i \in 1..Len(Upper) : Upper[i] = c
    THEN Lower[CHOOSE i \in 1..Len(Upper) : Upper[i] = c]
    ELSE c

ToLowercase(s) == [i \in 1..Len(s) |-> ToLowerChar(s[i])]

\* CiString::eq
CiEq(a, b) == ToLowercase(a) = ToLowercase(b)

\* str::cmp: byte-wise lexicographic order, the order of BTreeMap<String, _>
RECURSIVE StrLess(_, _)
StrLess(a, b) ==
    IF b = <<>> THEN FALSE
    ELSE IF a = <<>> THEN TRUE
    ELSE IF a[1] = b[1] THEN StrLess(Tail(a), Tail(b))
    ELSE Code(a[1]) < Code(b[1])

\* str::contains
Contains(s, k) ==
    \E i \in 0..(Len(s) - Len(k)) : SubSeq(s, i + 1, i + Len(k)) = k

\* str::replace(char, &str)
RECURSIVE Replace(_, _, _)
Replace(s, c, r) ==
    IF s = <<>> THEN <<>>
    ELSE (IF s[1] = c THEN r ELSE <<s[1]>>) \o Replace(Tail(s), c, r)

\* The keys of a BTreeMap<String, _>, in iteration order
RECURSIVE SortedKeys(_)
SortedKeys(S) ==
    IF S = {} THEN <<>>
    ELSE LET m == CHOOSE x \in S : \A y \in S \ {x} : StrLess(x, y)
         IN  <<m>> \o SortedKeys(S \ {m})

----------------------------------------------------------------------------
\* choose_asset

\* Iterator::position
Position(assets, keyword) ==
    LET hits == {i \in 1..Len(assets) : Contains(assets[i], keyword)}
    IN  IF hits = {} THEN None
        ELSE Some(CHOOSE i \in hits : \A j \in hits : i <= j)

\* A bug choose_asset could have: the assets scanned in the outer loop.
ChooseAssetAssetsFirst(assets, keywords) ==
    LET hits == {i \in 1..Len(assets) :
                    \E k \in 1..Len(keywords) : Contains(assets[i], keywords[k])}
    IN  IF hits = {} THEN None
        ELSE Some(CHOOSE i \in hits : \A j \in hits : i <= j)

\* Iterator::find_map over the keywords
RECURSIVE ChooseAsset(_, _)
ChooseAsset(assets, keywords) ==
    IF keywords = <<>> THEN None
    ELSE LET p == Position(assets, keywords[1])
         IN  IF p # None THEN p ELSE ChooseAsset(assets, Tail(keywords))


\* artifact_choosing.rs: the keyword lists of four targets
KeywordsMacosAarch64 ==
    << <<"m", "a", "c", "o", "s", "-", "a", "r", "m", "6", "4">>,
       <<"d", "a", "r", "w", "i", "n", "-", "a", "r", "m", "6", "4">>,
       <<"m", "a", "c", "o", "s", "-", "a", "a", "r", "c", "h", "6", "4">>,
       <<"d", "a", "r", "w", "i", "n", "-", "a", "a", "r", "c", "h", "6", "4">>,
       <<"m", "a", "c", "o", "s">>,
       <<"d", "a", "r", "w", "i", "n">> >>

KeywordsMacosX86 ==
    << <<"m", "a", "c", "o", "s", "-", "x", "8", "6", "_", "6", "4">>,
       <<"d", "a", "r", "w", "i", "n", "-", "x", "8", "6", "_", "6", "4">>,
       <<"m", "a", "c", "o", "s">>,
       <<"d", "a", "r", "w", "i", "n">> >>

KeywordsWindowsX86 ==
    << <<"w", "i", "n", "6", "4">>,
       <<"w", "i", "n", "d", "o", "w", "s", "-", "x", "8", "6", "_", "6", "4">>,
       <<"w", "i", "n", "d", "o", "w", "s">> >>

KeywordsLinuxX86 ==
    << <<"l", "i", "n", "u", "x", "-", "x", "8", "6", "_", "6", "4">>,
       <<"l", "i", "n", "u", "x">> >>

\* The target the tool cache is modelled for
PlatformKeywords == KeywordsLinuxX86

\* Asset names, those of test::select_correct_asset among them
AssetLinux == <<"t", "o", "o", "l", "-", "l", "i", "n", "u", "x", ".", "z", "i", "p">>

AssetMacosArm ==
    <<"t", "o", "o", "l", "-", "m", "a", "c", "o", "s", "-", "a", "r", "m", "6", "4",
      ".", "z", "i", "p">>

AssetMacosX86 ==
    <<"t", "o", "o", "l", "-", "m", "a", "c", "o", "s", "-", "x", "8", "6", "_", "6",
      "4", ".", "z", "i", "p">>

AssetWin64 == <<"t", "o", "o", "l", "-", "w", "i", "n", "6", "4", ".", "z", "i", "p">>

AssetReadme == <<"r", "e", "a", "d", "m", "e", ".", "t", "x", "t">>

AssetNames == {AssetLinux, AssetMacosArm, AssetMacosX86, AssetWin64, AssetReadme}

KeywordLists ==
    {KeywordsMacosAarch64, KeywordsMacosX86, KeywordsWindowsX86, KeywordsLinuxX86, <<>>}

MaxAssets == 3

SeqsUpTo(S, n) == UNION {[1..k -> S] : k \in 0..n}

ChooseInit ==
    /\ sel_assets \in SeqsUpTo(AssetNames, MaxAssets)
    /\ sel_keywords \in KeywordLists
    /\ chosen = [done |-> FALSE, index |-> None]

\* A call of choose_asset
ChooseCall ==
    /\ ~chosen.done
    /\ chosen' = [done |-> TRUE, index |-> ChooseAsset(sel_assets, sel_keywords)]
    /\ UNCHANGED <<sel_assets, sel_keywords>>

----------------------------------------------------------------------------
\* Versions and requirements (the semver crate, as tool_cache.rs uses it)

Digits == <<"0", "1", "2", "3", "4", "5", "6", "7", "8", "9">>

IsDigit(c) == \E i \in 1..Len(Digits) : Digits[i] = c

DigitValue(c) == (CHOOSE i \in 1..Len(Digits) : Digits[i] = c) - 1

\* Version::parse, for versions major.minor.patch of one digit each
ParseVersion(s) ==
    IF /\ Len(s) = 5
       /\ IsDigit(s[1]) /\ s[2] = "." /\ IsDigit(s[3]) /\ s[4] = "." /\ IsDigit(s[5])
    THEN Some(<<DigitValue(s[1]), DigitValue(s[3]), DigitValue(s[5])>>)
    ELSE None

\* Version's Display
FormatVersion(v) == <<Digits[v[1] + 1], ".", Digits[v[2] + 1], ".", Digits[v[3] + 1]>>

\* Version::cmp
VersionLess(v, w) ==
    \/ v[1] < w[1]
    \/ v[1] = w[1] /\ v[2] < w[2]
    \/ v[1] = w[1] /\ v[2] = w[2] /\ v[3] < w[3]

\* A caret requirement "major.minor"
Req(major, minor) == [major |-> major, minor |-> minor]

\* VersionReq::matches
Matches(req, v) ==
    IF req.major > 0
    THEN v[1] = req.major /\ v[2] >= req.minor
    ELSE v[1] = 0 /\ v[2] = req.minor

----------------------------------------------------------------------------
\* Tool specifications and manifests (config.rs)

GITHUB ==
    <<"h", "t", "t", "p", "s", ":", "/", "/", "g", "i", "t", "h", "u", "b", ".", "c",
      "o", "m", "/">>

GITLAB ==
    <<"h", "t", "t", "p", "s", ":", "/", "/", "g", "i", "t", "l", "a", "b", ".", "c",
      "o", "m", "/">>

ArtifactoryHost ==
    <<"h", "t", "t", "p", "s", ":", "/", "/", "a", "r", "t", ".", "e", "x", "a", "m",
      "p", "l", "e", "/">>

ToolSpec(protocol, host, path, version) ==
    [protocol |-> protocol, host |-> host, path |-> path, version |-> version]

\* A bug cache_key could have: the host goes into the key of every protocol
CacheKeyWithHost(tool) == tool.host \o <<"@">> \o tool.path

\* A bug cache_key could have: the path alone for every protocol
CacheKeyPathOnly(tool) == tool.path

\* ToolSpec::cache_key
CacheKey(tool) ==
    CASE tool.protocol = "Github" -> tool.path
      [] tool.protocol = "Gitlab" -> <<"g", "i", "t", "l", "a", "b", "@">> \o tool.path
      [] tool.protocol = "Artifactory" -> tool.host \o <<"@">> \o tool.path

\* ToolSpec::source
Source(tool) ==
    (CASE tool.protocol = "Github" -> <<"g", "i", "t", "h", "u", "b", ".", "c", "o", "m">>
       [] tool.protocol = "Gitlab" -> <<"g", "i", "t", "l", "a", "b", ".", "c", "o", "m">>
       [] tool.protocol = "Artifactory" ->
            <<"a", "r", "t", "i", "f", "a", "c", "t", "o", "r", "y", ".", "c", "o", "m">>)
    \o <<"/">> \o tool.path

Host(source, protocol) == [source |-> source, protocol |-> protocol]

KeySource == <<"s", "o", "u", "r", "c", "e">>

KeyGithub == <<"g", "i", "t", "h", "u", "b">>

KeyGitlab == <<"g", "i", "t", "l", "a", "b">>

KeyArt == <<"a", "r", "t">>

\* A map as a function over a set of strings
EmptyMap == <<>>

MapInsert(m, k, v) == [x \in DOMAIN m \cup {k} |-> IF x = k THEN v ELSE m[x]]

\* BTreeMap::entry(k).or_insert(v), HashMap::entry(k).or_insert(v) for every (k, v) of other
OrInsertAll(m, other) ==
    [x \in DOMAIN m \cup DOMAIN other |-> IF x \in DOMAIN m THEN m[x] ELSE other[x]]

\* A bug fill_from could have: insert, which replaces the entry already present
InsertAll(m, other) ==
    [x \in DOMAIN m \cup DOMAIN other |-> IF x \in DOMAIN other THEN other[x] ELSE m[x]]

\* ConfigFile::new_with_defaults
NewWithDefaults ==
    [tools |-> EmptyMap,
     hosts |-> MapInsert(MapInsert(MapInsert(EmptyMap,
                  KeySource, Host(GITHUB, "Github")),
                  KeyGithub, Host(GITHUB, "Github")),
                  KeyGitlab, Host(GITLAB, "Gitlab"))]

\* ConfigFile::from_value, of a file that parses: the defaults, the file's hosts
\* inserted over them, and the file's tools
FromValue(file) ==
    [tools |-> file.tools,
     hosts |-> InsertAll(NewWithDefaults.hosts, file.hosts)]

FillFromOverwriting(self, other) ==
    [tools |-> InsertAll(self.tools, other.tools),
     hosts |-> InsertAll(self.hosts, other.hosts)]

\* ConfigFile::fill_from
FillFrom(self, other) ==
    [tools |-> OrInsertAll(self.tools, other.tools),
     hosts |-> OrInsertAll(self.hosts, other.hosts)]

\* The foreman.toml of one directory: absent, unparsable, or a parsed manifest
AbsentFile == [kind |-> "absent", tools |-> EmptyMap, hosts |-> EmptyMap]

InvalidFile == [kind |-> "invalid", tools |-> EmptyMap, hosts |-> EmptyMap]

TomlFile(tools, hosts) == [kind |-> "toml", tools |-> tools, hosts |-> hosts]

\* A foreman.toml that parses and has no key tools
MissingToolsFile == [kind |-> "missing_tools", tools |-> EmptyMap, hosts |-> EmptyMap]

\* A foreman.toml that parses and whose key tools is no table (tools = 1)
ToolsNotTableFile == [kind |-> "tools_not_table", tools |-> EmptyMap, hosts |-> EmptyMap]

\* One foreman.toml of the walk: fs::try_read, toml::from_slice, from_value, fill_from
FoldFile(acc, file, position) ==
    IF ~acc.ok THEN acc
    ELSE CASE file.kind = "absent" -> acc
           [] file.kind \in {"invalid", "missing_tools"} ->
                [ok |-> FALSE, config |-> None, failed_at |-> position]
           [] file.kind = "tools_not_table" ->
                [ok |-> TRUE,
                 config |-> Some(FillFrom(acc.config[1], FromValue(file))),
                 failed_at |-> 0]
           [] file.kind = "toml" ->
                [ok |-> TRUE,
                 config |-> Some(FillFrom(acc.config[1], FromValue(file))),
                 failed_at |-> 0]

\* The loop of ConfigFile::aggregate over the working directory and its ancestors
RECURSIVE AggregateWalk(_, _, _)
AggregateWalk(acc, ds, i) ==
    IF i > Len(ds) \/ ~acc.ok THEN acc
    ELSE AggregateWalk(FoldFile(acc, ds[i], i), ds, i + 1)

\* ConfigFile::aggregate
Aggregate(ds, home) ==
    FoldFile(AggregateWalk([ok |-> TRUE, config |-> Some(NewWithDefaults), failed_at |-> 0],
                           ds, 1),
             home, Len(ds) + 1)

----------------------------------------------------------------------------
\* The tools, aliases and manifests the model draws its inputs from

PathLower == <<"a", "/", "b">>

PathUpper == <<"A", "/", "b">>

ToolLower10 == ToolSpec("Github", GITHUB, PathLower, Req(1, 0))

ToolLower11 == ToolSpec("Github", GITHUB, PathLower, Req(1, 1))

ToolUpper20 == ToolSpec("Github", GITHUB, PathUpper, Req(2, 0))

ToolUpper10 == ToolSpec("Github", GITHUB, PathUpper, Req(1, 0))

AliasA == <<"a">>

AliasB == <<"B">>

AliasZ == <<"z">>

Maps(D, R) == UNION {[S -> R] : S \in SUBSET D}

AggAliases == {AliasA, AliasB}

AggManifests ==
    {AbsentFile, InvalidFile}
    \cup {TomlFile(m, EmptyMap) : m \in Maps(AggAliases, {ToolLower10, ToolUpper20})}
    \cup {TomlFile(EmptyMap, MapInsert(EmptyMap, KeyArt, Host(ArtifactoryHost, "Artifactory"))),
          TomlFile(EmptyMap, MapInsert(EmptyMap, KeyGithub, Host(ArtifactoryHost, "Github")))}

MaxDepth == 2

NotAggregated == [done |-> FALSE, ok |-> FALSE, config |-> None, failed_at |-> 0]

AggregateInit ==
    /\ dirs \in SeqsUpTo(AggManifests, MaxDepth) \ {<<>>}
    /\ user_config \in AggManifests
    /\ aggregated = NotAggregated

\* The manifests of a chain of which some are broken
AggFiles ==
    {AbsentFile, InvalidFile, MissingToolsFile, ToolsNotTableFile,
     TomlFile(EmptyMap, EmptyMap),
     TomlFile(MapInsert(EmptyMap, AliasA, ToolLower10), EmptyMap),
     TomlFile(MapInsert(EmptyMap, AliasB, ToolUpper20), EmptyMap)}

AggregateFilesInit ==
    /\ dirs \in SeqsUpTo(AggFiles, MaxDepth) \ {<<>>}
    /\ user_config \in AggFiles
    /\ aggregated = NotAggregated

\* A call of ConfigFile::aggregate
AggregateCall ==
    /\ ~aggregated.done
    /\ aggregated' = [done |-> TRUE] @@ Aggregate(dirs, user_config)
    /\ UNCHANGED <<dirs, user_config>>

----------------------------------------------------------------------------
\* The root directory's files

\* tool-cache.json: absent, not a serialization, or the serialized index
AbsentIndex == [kind |-> "absent", entries |-> {}]

GarbageIndex == [kind |-> "garbage", entries |-> {}]

JsonIndex(entries) == [kind |-> "json", entries |-> entries]

\* The versions of a BTreeSet<Version>, in iteration order
RECURSIVE Ascending(_)
Ascending(S) ==
    IF S = {} THEN <<>>
    ELSE LET m == CHOOSE v \in S : \A w \in S \ {v} : VersionLess(v, w)
         IN  <<m>> \o Ascending(S \ {m})

\* serde_json::to_string_pretty of ToolCache: each cache key with its versions,
\* formatted, in the set's order
Serialize(tools) ==
    {[key |-> e.key,
      versions |-> [i \in 1..Cardinality(e.versions) |->
                        FormatVersion(Ascending(e.versions)[i])]] : e \in tools}

\* serde_json::from_slice into ToolCache
Deserialize(entries) ==
    {[key |-> e.key,
      versions |-> {ParseVersion(e.versions[i])[1] : i \in 1..Len(e.versions)}] :
        e \in entries}

\* fs::try_read: the contents, or nothing when the file does not exist
TryRead(file) == IF file.kind = "absent" THEN None ELSE Some(file)

\* A bug load could have: an index that does not parse is reset
LoadResetting(file) ==
    IF file.kind = "json"
    THEN [ok |-> TRUE, tools |-> Deserialize(file.entries), error |-> "", file |-> file]
    ELSE [ok |-> TRUE, tools |-> {}, error |-> "", file |-> JsonIndex({})]

\* ToolCache::load; file is tool-cache.json after the call
Load(file) ==
    LET contents == TryRead(file)
    IN  IF contents = None
        THEN [ok |-> TRUE, tools |-> {}, error |-> "", file |-> file]
        ELSE IF contents[1].kind = "json"
        THEN [ok |-> TRUE, tools |-> Deserialize(contents[1].entries), error |-> "",
              file |-> file]
        ELSE [ok |-> FALSE, tools |-> {}, error |-> "ToolCacheParse", file |-> file]

\* fs::write (std::fs::write): the file is created or truncated, then written
Write(file, contents, fault) ==
    CASE fault = "save_create" -> [ok |-> FALSE, file |-> file]
      [] fault = "save_write" -> [ok |-> FALSE, file |-> GarbageIndex]
      [] OTHER -> [ok |-> TRUE, file |-> contents]

\* ToolCache::save
Save(tools, file, fault) == Write(file, JsonIndex(Serialize(tools)), fault)

\* tools/: a map from file name to mode
FileExists(dir, name) == name \in DOMAIN dir

IsExecutable(dir, name) == name \in DOMAIN dir /\ dir[name] = "rwx"

\* fs::copy_from_reader: the file is created (with the default mode) or
\* truncated (its mode kept), then written
CopyFromReader(dir, name, fault) ==
    LET created == MapInsert(dir, name, IF name \in DOMAIN dir THEN dir[name] ELSE "rw")
    IN  CASE fault = "copy_create" -> [ok |-> FALSE, dir |-> dir]
          [] fault = "copy_write" -> [ok |-> FALSE, dir |-> created]
          [] OTHER -> [ok |-> TRUE, dir |-> created]

\* fs::set_permissions(path, 0o777)
SetPermissions(dir, name, fault) ==
    IF fault = "set_permissions" THEN [ok |-> FALSE, dir |-> dir]
    ELSE [ok |-> TRUE, dir |-> MapInsert(dir, name, "rwx")]

----------------------------------------------------------------------------
\* The tool cache (tool_cache.rs)

EXE_SUFFIX == <<>>

\* tool_identifier_to_exe_name
ToolIdentifierToExeName(tool, version) ==
    Replace(Replace(CacheKey(tool) \o <<"-">> \o FormatVersion(version) \o EXE_SUFFIX,
                    "/", <<"_", "_">>),
            "\\", <<"_", "_">>)

\* HashMap<CiString, ToolEntry>::get
GetEntry(tools, key) == {e \in tools : CiEq(e.key, key)}

\* tools.entry(key).or_default().versions.insert(version): an entry already
\* present keeps the key it was created with
InsertVersion(tools, key, version) ==
    IF GetEntry(tools, key) = {}
    THEN tools \cup {[key |-> key, versions |-> {version}]}
    ELSE {IF CiEq(e.key, key)
          THEN [key |-> e.key, versions |-> e.versions \cup {version}]
          ELSE e : e \in tools}

\* The tag of a release as a version: parsed as it is, else with one leading v dropped
ParseTag(tag_name) ==
    IF ParseVersion(tag_name) # None THEN ParseVersion(tag_name)
    ELSE IF tag_name = <<>> \/ tag_name[1] # "v" THEN None
    ELSE ParseVersion(Tail(tag_name))

AssetNamesOf(release) == [i \in 1..Len(release.assets) |-> release.assets[i].name]

\* The filter_map of download: the releases with a version and a platform asset
RECURSIVE SemverReleases(_)
SemverReleases(releases) ==
    IF releases = <<>> THEN <<>>
    ELSE LET release == releases[1]
             version == ParseTag(release.tag_name)
             asset_index == ChooseAsset(AssetNamesOf(release), PlatformKeywords)
         IN  (IF version # None /\ asset_index # None
              THEN <<[version |-> version[1], asset_index |-> asset_index[1],
                      release |-> release]>>
              ELSE <<>>)
             \o SemverReleases(Tail(releases))

RECURSIVE InsertDescending(_, _)
InsertDescending(sorted, x) ==
    IF sorted = <<>> THEN <<x>>
    ELSE IF VersionLess(sorted[1].version, x.version) THEN <<x>> \o sorted
    ELSE <<sorted[1]>> \o InsertDescending(Tail(sorted), x)

\* A bug download could have: the releases left in the order the provider gave
Unsorted(s) == s

\* semver_releases.sort_by(|a, b| b.0.cmp(&a.0)): a stable sort, descending
RECURSIVE SortDescending(_)
SortDescending(s) ==
    IF s = <<>> THEN <<>>
    ELSE InsertDescending(SortDescending(SubSeq(s, 1, Len(s) - 1)), s[Len(s)])

\* Iterator::find on the sorted releases
FindMatching(semver_releases, version_req) ==
    LET hits == {i \in 1..Len(semver_releases) :
                    Matches(version_req, semver_releases[i].version)}
    IN  IF hits = {} THEN None
        ELSE Some(CHOOSE i \in hits : \A j \in hits : i <= j)

\* A bug download could have: the versions listed least first
VersionsOfListing(semver_releases) ==
    LET n == Len(semver_releases)
    IN  [i \in 1..n |-> semver_releases[n + 1 - i].version]

\* available_versions: semver_releases.into_iter().map(|(version, _, _)| version)
VersionsOf(semver_releases) ==
    [i \in 1..Len(semver_releases) |-> semver_releases[i].version]

\* What a call of download or download_if_necessary leaves and returns
Outcome(tools, file, dir, calls, ok, version, kind, available) ==
    [tools |-> tools, file |-> file, dir |-> dir, calls |-> calls, ok |-> ok,
     version |-> version, error |-> kind, available_versions |-> available,
     wrote |-> None]

\* The outcome of a call in which copy_from_reader wrote to tools/<tool_path>
Wrote(outcome, tool_path) == [outcome EXCEPT !.wrote = Some(tool_path)]

GetReleasesCall(tool, releases, fault) ==
    [op |-> "get_releases", target |-> Source(tool), ok |-> fault # "get_releases",
     releases |-> IF fault = "get_releases" THEN <<>> ELSE releases]

DownloadAssetCall(url, fault) ==
    [op |-> "download_asset", target |-> url, ok |-> fault # "download_asset",
     releases |-> <<>>]

\* ToolCache::download, from the release picked on
Install(tools, file, dir, tool, picked, listed, fault) ==
    LET version == picked.version
        url == picked.release.assets[picked.asset_index].url
        calls == <<listed, DownloadAssetCall(url, fault)>>
        tool_path == ToolIdentifierToExeName(tool, version)
        copied == CopyFromReader(dir, tool_path, fault)
        permitted == SetPermissions(copied.dir, tool_path, fault)
        inserted == InsertVersion(tools, CacheKey(tool), version)
        saved == Save(inserted, file, fault)
    IN  CASE fault = "download_asset" ->
                Outcome(tools, file, dir, calls, FALSE, None, "RequestFailed", <<>>)
          [] fault \in {"zip_open", "zip_entry"} ->
                Outcome(tools, file, dir, calls, FALSE, None, "InvalidReleaseAsset", <<>>)
          [] fault = "copy_create" ->
                Outcome(tools, file, copied.dir, calls, FALSE, None, "Write", <<>>)
          [] ~copied.ok ->
                Wrote(Outcome(tools, file, copied.dir, calls, FALSE, None, "Write", <<>>),
                      tool_path)
          [] ~permitted.ok ->
                Wrote(Outcome(tools, file, permitted.dir, calls, FALSE, None,
                              "SetPermissions", <<>>),
                      tool_path)
          [] ~saved.ok ->
                Wrote(Outcome(inserted, saved.file, permitted.dir, calls, FALSE, None,
                              "Write", <<>>),
                      tool_path)
          [] OTHER ->
                Wrote(Outcome(inserted, saved.file, permitted.dir, calls, TRUE,
                              Some(version), "", <<>>),
                      tool_path)

\* ToolCache::download
Download(tools, file, dir, tool, releases, fault) ==
    LET listed == GetReleasesCall(tool, releases, fault)
        semver_releases == SortDescending(SemverReleases(releases))
        matching_release == FindMatching(semver_releases, tool.version)
    IN  IF fault = "get_releases"
        THEN Outcome(tools, file, dir, <<listed>>, FALSE, None, "RequestFailed", <<>>)
        ELSE IF matching_release = None
        THEN Outcome(tools, file, dir, <<listed>>, FALSE, None,
                     "NoCompatibleVersionFound", VersionsOf(semver_releases))
        ELSE Install(tools, file, dir, tool, semver_releases[matching_release[1]],
                     listed, fault)

\* The versions of an entry, greatest first (versions.iter().rev())
Descending(S) == [i \in 1..Cardinality(S) |-> Ascending(S)[Cardinality(S) + 1 - i]]

\* A bug download_if_necessary could have: the versions visited without rev()
MatchingVersionAscending(versions, version_req) ==
    LET seq == Ascending(versions)
        hits == {i \in 1..Len(seq) : Matches(version_req, seq[i])}
    IN  IF hits = {} THEN None
        ELSE Some(seq[CHOOSE i \in hits : \A j \in hits : i <= j])

\* versions.iter().rev().find(|version| tool.version().matches(version))
MatchingVersion(versions, version_req) ==
    LET seq == Descending(versions)
        hits == {i \in 1..Len(seq) : Matches(version_req, seq[i])}
    IN  IF hits = {} THEN None
        ELSE Some(seq[CHOOSE i \in hits : \A j \in hits : i <= j])

\* A bug download_if_necessary could have: the index is not looked at
DownloadAlways(tools, file, dir, tool, releases, fault) ==
    Download(tools, file, dir, tool, releases, fault)

\* ToolCache::download_if_necessary
DownloadIfNecessary(tools, file, dir, tool, releases, fault) ==
    LET tool_entry == GetEntry(tools, CacheKey(tool))
        matching_version ==
            IF tool_entry = {} THEN None
            ELSE MatchingVersion((CHOOSE e \in tool_entry : TRUE).versions, tool.version)
    IN  IF matching_version # None
        THEN Outcome(tools, file, dir, <<>>, TRUE, matching_version, "", <<>>)
        ELSE Download(tools, file, dir, tool, releases, fault)

----------------------------------------------------------------------------
\* What the providers and the filesystem may answer

Release(tag_name, assets) == [tag_name |-> tag_name, prerelease |-> FALSE, assets |-> assets]

ReleaseAsset(name, url) == [name |-> name, url |-> url]

LinuxOnly(url) == <<ReleaseAsset(AssetLinux, url)>>

\* One release, tagged without a v
ListOld == <<Release(<<"1", ".", "0", ".", "0">>, LinuxOnly(<<"u", "1">>))>>

\* Oldest first; tags that are no versions; the platform's asset not always the
\* first; the newest release without an asset for the platform
ListFull ==
    <<Release(<<"n", "i", "g", "h", "t", "l", "y">>, LinuxOnly(<<"u", "2">>)),
      Release(<<"1", ".", "0", ".", "0">>, LinuxOnly(<<"u", "1">>)),
      Release(<<"v", "x">>, LinuxOnly(<<"u", "3">>)),
      Release(<<"v", "1", ".", "1", ".", "0">>,
              <<ReleaseAsset(AssetWin64, <<"u", "4">>), ReleaseAsset(AssetReadme, <<"u", "5">>),
                ReleaseAsset(AssetLinux, <<"u", "6">>)>>),
      Release(<<"v", "2", ".", "0", ".", "0">>, LinuxOnly(<<"u", "7">>)),
      Release(<<"v", "2", ".", "1", ".", "0">>, <<ReleaseAsset(AssetWin64, <<"u", "8">>)>>)>>

\* Two releases of major version 1, oldest first
ListOnes ==
    <<Release(<<"1", ".", "0", ".", "0">>, LinuxOnly(<<"u", "1">>)),
      Release(<<"v", "1", ".", "1", ".", "0">>, LinuxOnly(<<"u", "6">>))>>

ReleaseLists == {ListOld, ListOnes, ListFull}

\* The step of an operation that fails, if one does
Faults ==
    {"none", "get_releases", "download_asset", "zip_open", "zip_entry", "copy_create",
     "copy_write", "set_permissions", "save_create", "save_write", "alias_create",
     "alias_write"}

\* How the child ends: with an exit code, or without one (killed by a signal)
ChildStatuses == {Some(0), Some(2), None}

\* A working directory with its foreman.toml files, and the user's manifest
World(cwd, ds, home) == [cwd |-> cwd, dirs |-> ds, home |-> home]

OneTool(alias, tool) == MapInsert(EmptyMap, alias, tool)

Worlds ==
    {World(<<"/", "p">>, <<TomlFile(OneTool(AliasA, ToolLower10), EmptyMap)>>,
           TomlFile(EmptyMap, EmptyMap)),
     World(<<"/", "p", "/", "q">>,
           <<TomlFile(OneTool(AliasA, ToolLower11), EmptyMap),
             TomlFile(MapInsert(OneTool(AliasA, ToolLower10), AliasB, ToolLower10), EmptyMap)>>,
           TomlFile(EmptyMap, EmptyMap)),
     World(<<"/", "r">>, <<AbsentFile>>, TomlFile(OneTool(AliasA, ToolUpper20), EmptyMap)),
     World(<<"/", "e">>, <<AbsentFile>>, TomlFile(EmptyMap, EmptyMap)),
     World(<<"/", "i">>, <<InvalidFile>>, TomlFile(EmptyMap, EmptyMap))}

Foreman == <<"f", "o", "r", "e", "m", "a", "n">>

Stems == {AliasA, AliasB, AliasZ}

ArgLists == {<<<<"-", "v">>>>}

MaxRuns == 2

----------------------------------------------------------------------------
\* One invocation of the manager (main.rs)

NoError == [kind |-> "", name |-> <<>>, current_path |-> <<>>, config_file |-> None,
            tools |-> <<>>]

Failure(kind) == [NoError EXCEPT !.kind = kind]

ToolNotInstalled(name, current_path, config_file) ==
    [kind |-> "ToolNotInstalled", name |-> name, current_path |-> current_path,
     config_file |-> Some(config_file), tools |-> <<>>]

ToolsNotDownloaded(tools) == [Failure("ToolsNotDownloaded") EXCEPT !.tools = tools]

MainInit ==
    /\ index_file = AbsentIndex
    /\ tools_dir = EmptyMap
    /\ bin_dir = EmptyMap
    /\ pc = "idle"
    /\ argv = <<>>
    /\ world = None
    /\ config = None
    /\ cache = {}
    /\ pending = <<>>
    /\ tools_not_downloaded = <<>>
    /\ log = <<>>
    /\ last = None
    /\ provider_log = <<>>
    /\ child = None
    /\ exit_status = None
    /\ error = NoError
    /\ runs = 0

\* main, as far as every invocation goes: a new process with nothing resolved
Begin(args, w) ==
    /\ pc \in {"idle", "exited"}
    /\ runs < MaxRuns
    /\ runs' = runs + 1
    /\ argv' = args
    /\ world' = Some(w)
    /\ provider_log' = <<>>
    /\ log' = <<>>
    /\ last' = None
    /\ child' = None
    /\ tools_not_downloaded' = <<>>

\* A bug exit_with_error could have: the error printed, the status that of success
ExitWithErrorSuccess(err) ==
    /\ error' = err
    /\ exit_status' = Some(0)
    /\ pc' = "exited"

\* exit_with_error
ExitWithError(err) ==
    /\ error' = err
    /\ exit_status' = Some(1)
    /\ pc' = "exited"

\* ToolInvocation::from_env and the head of ToolInvocation::run: the manifest
\* is aggregated and the invocation name looked up
ShimStart(stem, rest, w) ==
    \E agg \in {Aggregate(w.dirs, w.home)} :
        /\ Begin(<<stem>> \o rest, w)
        /\ stem # Foreman
        /\ cache' = {}
        /\ pending' = <<>>
        /\ UNCHANGED rootVars
        /\ IF ~agg.ok
           THEN /\ ExitWithError(Failure("ConfigFileParse"))
                /\ config' = None
           ELSE IF stem \in DOMAIN agg.config[1].tools
           THEN /\ pc' = "shim_resolved"
                /\ config' = agg.config
                /\ error' = NoError
                /\ exit_status' = None
           ELSE /\ ExitWithError(ToolNotInstalled(stem, w.cwd, agg.config[1]))
                /\ config' = agg.config

\* ToolInvocation::run: ToolCache::load
ShimLoad ==
    \E loaded \in {Load(index_file)} :
        /\ pc = "shim_resolved"
        /\ index_file' = loaded.file
        /\ cache' = loaded.tools
        /\ IF loaded.ok
           THEN pc' = "shim_loaded" /\ UNCHANGED <<error, exit_status>>
           ELSE ExitWithError(Failure(loaded.error))
        /\ UNCHANGED <<tools_dir, bin_dir, argv, world, config, pending, tools_not_downloaded,
                       log, last, provider_log, child, runs>>

Call(tool, outcome) ==
    Some([tool |-> tool, ok |-> outcome.ok, version |-> outcome.version,
          error |-> outcome.error, available_versions |-> outcome.available_versions,
          wrote |-> outcome.wrote])

Visit(alias, downloaded, aliased) ==
    [alias |-> alias, downloaded |-> downloaded, aliased |-> aliased]

\* ToolInvocation::run: download_if_necessary for the tool of the invocation name
ShimDownload(releases, fault) ==
    /\ pc = "shim_loaded"
    /\ \E tool \in {config[1].tools[argv[1]]} :
       \E outcome \in {DownloadIfNecessary(cache, index_file, tools_dir, tool, releases,
                                           fault)} :
        /\ cache' = outcome.tools
        /\ index_file' = outcome.file
        /\ tools_dir' = outcome.dir
        /\ provider_log' = outcome.calls
        /\ last' = Call(tool, outcome)
        /\ IF outcome.ok
           THEN pc' = "shim_run" /\ UNCHANGED <<error, exit_status>>
           ELSE ExitWithError(Failure(outcome.error))
        /\ UNCHANGED <<bin_dir, argv, world, config, pending, tools_not_downloaded, log, child,
                       runs>>

\* env::args().skip(1)
ChildArgs(args) == Tail(args)

\* A bug ToolInvocation::run could have: the child's exit code dropped
ManagerStatusZero(exit_code) == 0

\* The tail of ToolInvocation::run: exit(exit_code) if it is not 0, else Ok(()),
\* with which main returns
ManagerStatus(exit_code) == IF exit_code # 0 THEN exit_code ELSE 0

\* ToolCache::run and the tail of ToolInvocation::run
ShimRun(status) ==
    LET tool == config[1].tools[argv[1]]
        tool_path == ToolIdentifierToExeName(tool, last[1].version[1])
        exit_code == IF status = None THEN 1 ELSE status[1]
    IN  /\ pc = "shim_run"
        /\ IF IsExecutable(tools_dir, tool_path)
           THEN /\ child' = Some([path |-> tool_path, args |-> ChildArgs(argv),
                                  status |-> status])
                /\ exit_status' = Some(ManagerStatus(exit_code))
                /\ pc' = "exited"
                /\ UNCHANGED error
           ELSE /\ ExitWithError(Failure("IO"))
                /\ UNCHANGED child
        /\ UNCHANGED <<rootVars, argv, world, config, cache, pending, tools_not_downloaded, log,
                       last, provider_log, runs>>


\* add_self_alias: fs::copy of the manager's executable to bin/<name>
AddSelfAlias(dir, name, fault) ==
    CASE fault = "alias_create" -> [ok |-> FALSE, dir |-> dir]
      [] fault = "alias_write" -> [ok |-> FALSE, dir |-> MapInsert(dir, name, "partial")]
      [] OTHER -> [ok |-> TRUE, dir |-> MapInsert(dir, name, "foreman")]

\* Subcommand::Install, up to the walk: aggregate, then ToolCache::load
InstallStart(w) ==
    \E agg \in {Aggregate(w.dirs, w.home)}, loaded \in {Load(index_file)} :
        /\ Begin(<<Foreman, <<"i", "n", "s", "t", "a", "l", "l">>>>, w)
        /\ UNCHANGED <<tools_dir, bin_dir>>
        /\ IF ~agg.ok
           THEN /\ ExitWithError(Failure("ConfigFileParse"))
                /\ config' = None
                /\ cache' = {}
                /\ pending' = <<>>
                /\ UNCHANGED index_file
           ELSE /\ config' = agg.config
                /\ index_file' = loaded.file
                /\ cache' = loaded.tools
                /\ IF loaded.ok
                   THEN /\ pc' = "install"
                        /\ pending' = SortedKeys(DOMAIN agg.config[1].tools)
                        /\ error' = NoError
                        /\ exit_status' = None
                   ELSE /\ ExitWithError(Failure(loaded.error))
                        /\ pending' = <<>>

\* A bug the install walk could have: the walk ends at the first tool that fails
RestStoppingAtFailure(rest, failed) == IF failed THEN <<>> ELSE Tail(rest)

\* The filter_map of install goes on to the next tool, whatever happened to this one
Rest(rest, failed) == Tail(rest)

\* download_if_necessary(..).and_then(|_| add_self_alias(..))
AliasIfDownloaded(ok, dir, name, fault) ==
    IF ok THEN AddSelfAlias(dir, name, fault) ELSE [ok |-> FALSE, dir |-> dir]

\* Subcommand::Install: one tool of the walk, download_if_necessary and then
\* add_self_alias, the alias collected if either failed
InstallStep(releases, fault) ==
    /\ pc = "install"
    /\ pending # <<>>
    /\ \E tool_alias \in {Head(pending)} :
       \E tool_spec \in {config[1].tools[tool_alias]} :
       \E outcome \in {DownloadIfNecessary(cache, index_file, tools_dir, tool_spec,
                                           releases, fault)} :
       \E aliased \in {AliasIfDownloaded(outcome.ok, bin_dir, tool_alias, fault)} :
        /\ cache' = outcome.tools
        /\ index_file' = outcome.file
        /\ tools_dir' = outcome.dir
        /\ bin_dir' = aliased.dir
        /\ provider_log' = outcome.calls
        /\ last' = Call(tool_spec, outcome)
        /\ log' = Append(log, Visit(tool_alias, outcome.ok, aliased.ok))
        /\ tools_not_downloaded' =
              IF aliased.ok THEN tools_not_downloaded
              ELSE Append(tools_not_downloaded, tool_alias)
        /\ pending' = Rest(pending, ~aliased.ok)
        /\ UNCHANGED <<pc, argv, world, config, child, exit_status, error, runs>>

\* Subcommand::Install, after the walk
InstallFinish ==
    /\ pc = "install"
    /\ pending = <<>>
    /\ IF tools_not_downloaded # <<>>
       THEN ExitWithError(ToolsNotDownloaded(tools_not_downloaded))
       ELSE /\ exit_status' = Some(0)
            /\ pc' = "exited"
            /\ UNCHANGED error
    /\ UNCHANGED <<rootVars, argv, world, config, cache, pending, tools_not_downloaded, log,
                   last, provider_log, child, runs>>

----------------------------------------------------------------------------
\* The Unix process runner (process/unix.rs)

SIGABRT == 6

SIGINT == 2

SIGQUIT == 3

SIGTERM == 15

\* Signals::new(&[SIGABRT, SIGINT, SIGQUIT, SIGTERM])
Registered == {SIGABRT, SIGINT, SIGQUIT, SIGTERM}

\* How the child ends by itself: with an exit code, or without one
RunStatuses == {Some(0), Some(3), None}

NoChild == [state |-> "none", status |-> None, killed |-> FALSE]

NotEnded == [kind |-> "none", code |-> 0]

RunInit ==
    /\ run_pc = "entry"
    /\ signals = {}
    /\ signal_thread = "none"
    /\ signal_handle = "open"
    /\ kill_rx = None
    /\ run_child = NoChild
    /\ run_out = NotEnded
    /\ received = None

\* status.ok().and_then(|s| s.code()).unwrap_or(1)
ChildCode(status) == IF status = None THEN 1 ELSE status[1]

\* A bug run could have: the signal number itself as the exit status
SignalStatusBare(code) == IF code = None THEN 0 ELSE code[1]

\* 128 + code.unwrap_or(0)
SignalStatus(code) == 128 + (IF code = None THEN 0 ELSE code[1])

\* The head of run: the channel, the signals registered, the thread spawned
RunEntry ==
    /\ run_pc = "entry"
    /\ signal_thread' = "waiting"
    /\ run_pc' = "spawn"
    /\ UNCHANGED <<signals, signal_handle, kill_rx, run_child, run_out, received>>

\* The runtime is built and the child spawned, or run returns an error
RunSpawn(spawned) ==
    /\ run_pc = "spawn"
    /\ IF spawned
       THEN /\ run_child' = [NoChild EXCEPT !.state = "running"]
            /\ run_pc' = "select"
            /\ UNCHANGED run_out
       ELSE /\ run_out' = [kind |-> "error", code |-> 0]
            /\ run_pc' = "failed"
            /\ UNCHANGED run_child
    /\ UNCHANGED <<signals, signal_thread, signal_handle, kill_rx, received>>

\* A registered signal is delivered to the manager
SignalArrives(signal) ==
    /\ run_pc \notin {"entry", "returned", "failed", "exited"}
    /\ signal \notin signals
    /\ signals' = signals \cup {signal}
    /\ UNCHANGED <<run_pc, signal_thread, signal_handle, kill_rx, run_child, run_out, received>>

\* The child ends by itself
ChildTerminates(status) ==
    /\ run_child.state = "running"
    /\ run_child' = [run_child EXCEPT !.state = "terminated", !.status = status]
    /\ UNCHANGED <<run_pc, signals, signal_thread, signal_handle, kill_rx, run_out, received>>

\* The thread: signals.into_iter().next() yields a signal, which is sent on the
\* channel; the send fails, and is ignored, once the receiver is dropped
SignalThreadNext(signal) ==
    /\ signal_thread = "waiting"
    /\ signal \in signals
    /\ signals' = signals \ {signal}
    /\ received' = Some([signal |-> signal, at |-> run_pc])
    /\ kill_rx' = IF run_pc \in {"spawn", "select"} THEN Some(signal) ELSE kill_rx
    /\ signal_thread' = "finished"
    /\ UNCHANGED <<run_pc, signal_handle, run_child, run_out>>

\* The thread: the handle is closed, next() yields nothing, kill_tx is dropped
SignalThreadClosed ==
    /\ signal_thread = "waiting"
    /\ signal_handle = "closed"
    /\ signal_thread' = "finished"
    /\ UNCHANGED <<run_pc, signals, signal_handle, kill_rx, run_child, run_out, received>>

\* select!: child.wait() is ready and its branch is taken
SelectChild ==
    /\ run_pc = "select"
    /\ run_child.state = "terminated"
    /\ run_pc' = "child_branch"
    /\ UNCHANGED <<signals, signal_thread, signal_handle, kill_rx, run_child, run_out, received>>

\* select!: kill_rx is ready (a signal was sent, or the sender is gone) and its
\* branch is taken: child.kill().await.ok()
SelectKill ==
    /\ run_pc = "select"
    /\ kill_rx # None \/ (signal_thread = "finished" /\ received = None)
    /\ run_child' = [state |-> "terminated", status |-> run_child.status, killed |-> TRUE]
    /\ run_pc' = "kill_branch"
    /\ UNCHANGED <<signals, signal_thread, signal_handle, kill_rx, run_out, received>>

\* A bug run could have: the branches go on to the join without closing the handle
CloseHandleSkipped ==
    /\ run_pc \in {"child_branch", "kill_branch"}
    /\ run_pc' = IF run_pc = "child_branch" THEN "child_join" ELSE "kill_join"
    /\ UNCHANGED <<signals, signal_thread, signal_handle, kill_rx, run_child, run_out,
                   received>>

\* signal_handle.close(), in either branch
CloseHandle ==
    /\ run_pc \in {"child_branch", "kill_branch"}
    /\ signal_handle' = "closed"
    /\ run_pc' = IF run_pc = "child_branch" THEN "child_join" ELSE "kill_join"
    /\ UNCHANGED <<signals, signal_thread, kill_rx, run_child, run_out, received>>

\* signal_thread.join() in the branch of the child, and run returns Ok(code)
JoinAndReturn ==
    /\ run_pc = "child_join"
    /\ signal_thread = "finished"
    /\ run_out' = [kind |-> "returned", code |-> ChildCode(run_child.status)]
    /\ run_pc' = "returned"
    /\ UNCHANGED <<signals, signal_thread, signal_handle, kill_rx, run_child, received>>

\* signal_thread.join() in the branch of the signal, and std::process::exit
JoinAndExit ==
    /\ run_pc = "kill_join"
    /\ signal_thread = "finished"
    /\ run_out' = [kind |-> "exit", code |-> SignalStatus(kill_rx)]
    /\ run_pc' = "exited"
    /\ UNCHANGED <<signals, signal_thread, signal_handle, kill_rx, run_child, received>>

----------------------------------------------------------------------------
\* One entry of [tools] read by ToolSpec::from_value, and its cache key

\* toml::Value, as far as from_value tells values apart
StringValue(s) == [type |-> "string", str |-> s]

IntegerValue == [type |-> "integer", str |-> <<>>]

TableValue(map) == [type |-> "table", map |-> map]

\* VersionReq::parse, for the requirements "major.minor" and "^major.minor" of
\* one digit each
ParseReq(s) ==
    LET digits == IF s # <<>> /\ s[1] = "^" THEN Tail(s) ELSE s
    IN  IF Len(digits) = 3 /\ IsDigit(digits[1]) /\ digits[2] = "." /\ IsDigit(digits[3])
        THEN Some(Req(DigitValue(digits[1]), DigitValue(digits[3])))
        ELSE None

\* Table::remove
MapRemove(map, k) == [x \in DOMAIN map \ {k} |-> map[x]]

KeyVersion == <<"v", "e", "r", "s", "i", "o", "n">>

KeyPath == <<"p", "a", "t", "h">>

KeyX == <<"x">>

ToolParseError == [ok |-> FALSE, tool |-> None, error |-> "Tool"]

\* The host keys that the table still holds once version is removed; find_map
\* takes the first of them that the iteration of the HashMap reaches
PresentHosts(value, hosts) ==
    IF value.type # "table" THEN {}
    ELSE DOMAIN hosts \cap DOMAIN MapRemove(value.map, KeyVersion)

\* A bug from_value could have: the keys left over are not looked at
ExtraneousIgnored(map) == FALSE

\* !map.is_empty(), once version and the host key are removed
Extraneous(map) == DOMAIN map # {}

\* A form from_value could have had: an artifactory entry gives its path in a
\* path key, the host key's value being unused
ToolSpecFromValuePathKey(value, hosts, found) ==
    IF value.type # "table" \/ found = None THEN ToolParseError
    ELSE LET host_source == hosts[found[1]]
             rest == MapRemove(value.map, found[1])
             keyed == host_source.protocol = "Artifactory"
             path_val == IF keyed /\ KeyPath \in DOMAIN rest THEN rest[KeyPath]
                         ELSE value.map[found[1]]
             left == MapRemove(MapRemove(rest, KeyVersion), IF keyed THEN KeyPath ELSE KeyVersion)
         IN  IF \/ KeyVersion \notin DOMAIN value.map
                \/ value.map[KeyVersion].type # "string"
                \/ ParseReq(value.map[KeyVersion].str) = None
                \/ (keyed /\ KeyPath \notin DOMAIN rest)
                \/ Extraneous(left)
                \/ path_val.type # "string"
             THEN ToolParseError
             ELSE [ok |-> TRUE,
                   tool |-> Some(ToolSpec(host_source.protocol, host_source.source,
                                          path_val.str,
                                          ParseReq(value.map[KeyVersion].str)[1])),
                   error |-> ""]

\* ToolSpec::from_value; found is the host key find_map stops at, if any
ToolSpecFromValue(value, hosts, found) ==
    IF value.type # "table" THEN ToolParseError
    ELSE IF KeyVersion \notin DOMAIN value.map THEN ToolParseError
    ELSE LET version_value == value.map[KeyVersion]
             map == MapRemove(value.map, KeyVersion)
         IN  IF version_value.type # "string" THEN ToolParseError
             ELSE IF ParseReq(version_value.str) = None THEN ToolParseError
             ELSE IF found = None THEN ToolParseError
             ELSE LET path_val == map[found[1]]
                      host_source == hosts[found[1]]
                  IN  IF Extraneous(MapRemove(map, found[1])) THEN ToolParseError
                      ELSE IF path_val.type # "string" THEN ToolParseError
                      ELSE [ok |-> TRUE,
                            tool |-> Some(ToolSpec(host_source.protocol,
                                                   host_source.source, path_val.str,
                                                   ParseReq(version_value.str)[1])),
                            error |-> ""]

ForgeHost ==
    <<"h", "t", "t", "p", "s", ":", "/", "/", "g", "i", "t", ".", "e", "x", "a", "m",
      "p", "l", "e", "/">>

\* The default hosts; with an artifactory host; with hosts named x and version too
HostMaps ==
    LET defaults == NewWithDefaults.hosts
        art == MapInsert(defaults, KeyArt, Host(ArtifactoryHost, "Artifactory"))
    IN  {defaults, art,
         MapInsert(MapInsert(art, KeyX, Host(ForgeHost, "Github")),
                   KeyVersion, Host(ForgeHost, "Gitlab"))}

ToolKeys == {KeyVersion, KeyGithub, KeyGitlab, KeyArt, KeyPath, KeyX}

ToolFieldValues ==
    {StringValue(<<"^", "1", ".", "0">>), StringValue(PathUpper), IntegerValue}

ToolValues ==
    {StringValue(PathLower)}
        \cup {TableValue(map) : map \in UNION {[S -> ToolFieldValues] : S \in SUBSET ToolKeys}}

NotParsed == [done |-> FALSE, ok |-> FALSE, tool |-> None, error |-> ""]

ToolInit ==
    /\ tool_value \in ToolValues
    /\ host_map \in HostMaps
    /\ parsed = NotParsed
    /\ cache_key = None

ToolIdle ==
    /\ tool_value = StringValue(<<>>)
    /\ host_map = EmptyMap
    /\ parsed = NotParsed
    /\ cache_key = None

\* A call of ToolSpec::from_value
ToolSpecFromValueCall ==
    /\ ~parsed.done
    /\ \E found \in (IF PresentHosts(tool_value, host_map) = {} THEN {None}
                     ELSE {Some(k) : k \in PresentHosts(tool_value, host_map)}) :
       \E result \in {ToolSpecFromValue(tool_value, host_map, found)} :
          parsed' = [done |-> TRUE, ok |-> result.ok, tool |-> result.tool,
                     error |-> result.error]
    /\ UNCHANGED <<tool_value, host_map, cache_key>>

\* A call of cache_key on the specification from_value gave
CacheKeyCall ==
    /\ parsed.done
    /\ parsed.ok
    /\ cache_key = None
    /\ cache_key' = Some(CacheKey(parsed.tool[1]))
    /\ UNCHANGED <<tool_value, host_map, parsed>>

----------------------------------------------------------------------------
\* GithubProvider::get_releases (tool_provider/github.rs)

\* str::split: the pieces between the separators, one more than there are separators
RECURSIVE Split(_, _)
Split(s, sep) ==
    IF \A i \in 1..Len(s) : s[i] # sep THEN <<s>>
    ELSE LET i == CHOOSE i \in 1..Len(s) : s[i] = sep /\ \A j \in 1..(i - 1) : s[j] # sep
         IN  <<SubSeq(s, 1, i - 1)>> \o Split(SubSeq(s, i + 1, Len(s)), sep)

\* str::trim
RECURSIVE Trim(_)
Trim(s) ==
    IF s = <<>> THEN s
    ELSE IF s[1] = " " THEN Trim(Tail(s))
    ELSE IF s[Len(s)] = " " THEN Trim(SubSeq(s, 1, Len(s) - 1))
    ELSE s

RelNext == <<"r", "e", "l", "=", "\"", "n", "e", "x", "t", "\"">>

\* The inner loop of parse_next_link over the segments of one part: url is that
\* of the last <...> segment, is_next is set by a segment rel="next"
RECURSIVE ScanSegments(_, _)
ScanSegments(segments, acc) ==
    IF segments = <<>> THEN acc
    ELSE LET segment == Trim(segments[1])
         IN  ScanSegments(Tail(segments),
                 IF Len(segment) >= 2 /\ segment[1] = "<" /\ segment[Len(segment)] = ">"
                 THEN [acc EXCEPT !.url = Some(SubSeq(segment, 2, Len(segment) - 1))]
                 ELSE IF segment = RelNext THEN [acc EXCEPT !.is_next = TRUE]
                 ELSE acc)

\* The outer loop of parse_next_link: the url of the first part that is_next
RECURSIVE FirstNext(_)
FirstNext(parts) ==
    IF parts = <<>> THEN None
    ELSE LET scanned == ScanSegments(Split(parts[1], ";"), [url |-> None, is_next |-> FALSE])
         IN  IF scanned.is_next THEN scanned.url ELSE FirstNext(Tail(parts))

\* A bug parse_next_link could have: the first link of the header is followed,
\* whatever its relation
ParseFirstLink(link_header) ==
    ScanSegments(Split(Split(link_header, ",")[1], ";"), [url |-> None, is_next |-> FALSE]).url

\* parse_next_link
ParseNextLink(link_header) == FirstNext(Split(link_header, ","))

\* all_releases.extend(releases)
Extend(all_releases, releases) == all_releases \o releases

\* format!("https://api.github.com/repos/{}/releases?per_page=100", repo)
FirstUrl(repo) ==
    <<"h", "t", "t", "p", "s", ":", "/", "/", "a", "p", "i", ".", "g", "i", "t", "h",
      "u", "b", ".", "c", "o", "m", "/", "r", "e", "p", "o", "s", "/">>
        \o repo
        \o <<"/", "r", "e", "l", "e", "a", "s", "e", "s", "?", "p", "e", "r", "_",
             "p", "a", "g", "e", "=", "1", "0", "0">>

\* A Link header with the next page it names, if it names one
LinkHeader(text, next) == [text |-> text, next |-> next]

LinkHeaders ==
    {LinkHeader(<<>>, None),
     LinkHeader(
         <<"<", "u", "2", ">", ";", " ", "r", "e", "l", "=", "\"", "n", "e", "x",
           "t", "\"">>,
         Some(<<"u", "2">>)),
     LinkHeader(
         <<"<", "u", "1", ">", ";", " ", "r", "e", "l", "=", "\"", "p", "r", "e",
           "v", "\"", ",", " ", "<", "u", "3", ">", ";", " ", "r", "e", "l", "=",
           "\"", "n", "e", "x", "t", "\"", ",", " ", "<", "u", "5", ">", ";", " ",
           "r", "e", "l", "=", "\"", "l", "a", "s", "t", "\"">>,
         Some(<<"u", "3">>)),
     LinkHeader(
         <<"<", "u", "1", ">", ";", " ", "r", "e", "l", "=", "\"", "p", "r", "e",
           "v", "\"", ",", " ", "<", "u", "0", ">", ";", " ", "r", "e", "l", "=",
           "\"", "f", "i", "r", "s", "t", "\"">>,
         None)}

\* The response to one request: whether it came, its link header if it has one,
\* whether its body is a list of releases, and the releases
Response(sent, link, parses, releases) ==
    [sent |-> sent, link |-> link, parses |-> parses, releases |-> releases]

PageBodies ==
    {<<>>,
     <<Release(<<"v", "2", ".", "0", ".", "0">>, LinuxOnly(<<"u", "7">>))>>,
     <<Release(<<"1", ".", "1", ".", "0">>, LinuxOnly(<<"u", "6">>)),
       Release(<<"1", ".", "0", ".", "0">>, LinuxOnly(<<"u", "1">>))>>}

Responses ==
    {Response(FALSE, None, FALSE, <<>>)}
        \cup {Response(TRUE, link, FALSE, <<>>) : link \in {None, Some(LinkHeader(<<>>, None))}}
        \cup {Response(TRUE, link, TRUE, releases) :
                link \in {None} \cup {Some(h) : h \in LinkHeaders}, releases \in PageBodies}

MaxPages == 3

GithubEnded(ok, releases, kind) ==
    [done |-> TRUE, ok |-> ok, releases |-> releases, error |-> kind]

GithubInit ==
    /\ gh_next = None
    /\ gh_all = <<>>
    /\ gh_log = <<>>
    /\ gh_pages = <<>>
    /\ gh_out = [done |-> FALSE, ok |-> FALSE, releases |-> <<>>, error |-> ""]

GithubIdle == GithubInit

\* get_releases up to the loop: AuthStore::load, the URL of the first page
GithubStart(repo, loaded) ==
    /\ ~gh_out.done
    /\ gh_next = None
    /\ gh_log = <<>>
    /\ IF loaded
       THEN gh_next' = Some(FirstUrl(repo)) /\ UNCHANGED gh_out
       ELSE gh_out' = GithubEnded(FALSE, <<>>, "IO") /\ UNCHANGED gh_next
    /\ UNCHANGED <<gh_all, gh_log, gh_pages>>

\* One turn of the loop, and the return after it when no next link was found
GithubPage(response) ==
    /\ ~gh_out.done
    /\ gh_next # None
    /\ Len(gh_log) < MaxPages
    /\ gh_log' = Append(gh_log, gh_next[1])
    /\ gh_pages' = Append(gh_pages, response)
    /\ IF ~response.sent
       THEN /\ gh_out' = GithubEnded(FALSE, <<>>, "RequestFailed")
            /\ gh_next' = None
            /\ UNCHANGED gh_all
       ELSE \E next_url \in {IF response.link = None THEN None
                             ELSE ParseNextLink(response.link[1].text)} :
               /\ gh_next' = next_url
               /\ IF ~response.parses
                  THEN /\ gh_out' = GithubEnded(FALSE, <<>>, "UnexpectedResponseBody")
                       /\ UNCHANGED gh_all
                  ELSE /\ gh_all' = Extend(gh_all, response.releases)
                       /\ gh_out' = IF next_url = None
                                    THEN GithubEnded(TRUE, gh_all', "")
                                    ELSE gh_out

----------------------------------------------------------------------------
\* ArtifactoryProvider::get_releases (tool_provider/artifactory.rs)

\* A bug get_version_and_asset_name could have: what follows the asset name is
\* not looked at
GetVersionAndAssetNameLenient(uri) ==
    IF Len(uri) < 3 \/ uri[1] # <<>> THEN None ELSE Some(<<uri[2], uri[3]>>)

\* get_version_and_asset_name, of the pieces of file.uri.split("/")
GetVersionAndAssetName(uri) ==
    IF uri = <<>> THEN None
    ELSE IF uri[1] # <<>> THEN None
    ELSE IF Len(uri) < 2 THEN None
    ELSE IF Len(uri) < 3 THEN None
    ELSE IF Len(uri) > 3 THEN None
    ELSE Some(<<uri[2], uri[3]>>)

\* format!("{}artifactory/{}/{}/{}", host, repo, version, asset_name)
AssetUrl(host, repo, version, asset_name) ==
    host \o <<"a", "r", "t", "i", "f", "a", "c", "t", "o", "r", "y", "/">> \o repo
        \o <<"/">> \o version \o <<"/">> \o asset_name

\* release_map.entry(version).or_insert(Vec::new()).push(asset)
PushAsset(release_map, version, asset) ==
    MapInsert(release_map, version,
              IF version \in DOMAIN release_map THEN Append(release_map[version], asset)
              ELSE <<asset>>)

\* The loop of get_releases over response.files
RECURSIVE GroupFiles(_, _, _, _)
GroupFiles(release_map, files, host, repo) ==
    IF files = <<>> THEN release_map
    ELSE LET parsed_uri == GetVersionAndAssetName(Split(files[1], "/"))
         IN  GroupFiles(IF parsed_uri = None THEN release_map
                        ELSE PushAsset(release_map, parsed_uri[1][1],
                                       ReleaseAsset(parsed_uri[1][2],
                                                    AssetUrl(host, repo, parsed_uri[1][1],
                                                             parsed_uri[1][2]))),
                        Tail(files), host, repo)

\* The orders in which release_map.into_iter() may give its entries
Orders(S) == {order \in [1..Cardinality(S) -> S] : \A x \in S : \E i \in DOMAIN order : order[i] = x}

\* The releases get_releases may return: those of release_map, in each order of
\* the map's iteration
ArtifactoryReleases(files, host, repo) ==
    LET release_map == GroupFiles(EmptyMap, files, host, repo)
    IN  {[i \in DOMAIN order |-> Release(order[i], release_map[order[i]])] :
            order \in Orders(DOMAIN release_map)}

\* A listed URI, and the version and asset name it stands for when its path is
\* /<version>/<asset_name>
Uri(text, stands_for) == [text |-> text, stands_for |-> stands_for]

Uris ==
    {Uri(<<"/", "1", "/", "a">>, Some(<<<<"1">>, <<"a">>>>)),
     Uri(<<"/", "1", "/", "b">>, Some(<<<<"1">>, <<"b">>>>)),
     Uri(<<"/", "2", "/", "a">>, Some(<<<<"2">>, <<"a">>>>)),
     Uri(<<"/", "a">>, None),
     Uri(<<"/", "1", "/", "a", "/", "x">>, None),
     Uri(<<"/">>, None),
     Uri(<<>>, None)}

MaxFiles == 3

ArtifactoryFaults == {"none", "tokens", "send", "parse"}

ArtifactoryInit ==
    /\ art_files \in SeqsUpTo(Uris, MaxFiles)
    /\ art_out = [done |-> FALSE, ok |-> FALSE, releases |-> <<>>, error |-> ""]

ArtifactoryIdle ==
    /\ art_files = <<>>
    /\ art_out = [done |-> FALSE, ok |-> FALSE, releases |-> <<>>, error |-> ""]

\* A call of ArtifactoryProvider::get_releases
ArtifactoryGetReleases(fault) ==
    /\ ~art_out.done
    /\ CASE fault = "tokens" ->
              art_out' = [done |-> TRUE, ok |-> FALSE, releases |-> <<>>,
                          error |-> "ArtiAAError"]
         [] fault = "send" ->
              art_out' = [done |-> TRUE, ok |-> FALSE, releases |-> <<>>,
                          error |-> "RequestFailed"]
         [] fault = "parse" ->
              art_out' = [done |-> TRUE, ok |-> FALSE, releases |-> <<>>,
                          error |-> "UnexpectedResponseBody"]
         [] OTHER ->
              \E releases \in ArtifactoryReleases(
                                  [i \in DOMAIN art_files |-> art_files[i].text],
                                  ArtifactoryHost, PathLower) :
                  art_out' = [done |-> TRUE, ok |-> TRUE, releases |-> releases,
                              error |-> ""]
    /\ UNCHANGED art_files

----------------------------------------------------------------------------
\* ForemanPaths::create_all (paths.rs)

\* include_str!("../resources/default-foreman.toml") and default-auth.toml, by name
DEFAULT_USER_CONFIG == "DEFAULT_USER_CONFIG"

DEFAULT_AUTH_CONFIG == "DEFAULT_AUTH_CONFIG"

\* The root directory: which directories exist, and the contents of the two
\* files, None for a file that does not exist
Home(root, bin, tools, manifest, auth) ==
    [root_dir |-> root, bin_dir |-> bin, tools_dir |-> tools, user_config |-> manifest,
     auth_store |-> auth]

\* fs::create_dir_all of a directory of the root
CreateDirAll(dir_exists, fault, name) ==
    IF dir_exists THEN [ok |-> TRUE, exists |-> TRUE]
    ELSE IF fault = name THEN [ok |-> FALSE, exists |-> FALSE]
    ELSE [ok |-> TRUE, exists |-> TRUE]

\* fs::write_if_not_found: the contents are written when no file is at the path
WriteIfNotFound(file, contents, fault, name) ==
    IF file # None THEN [ok |-> TRUE, file |-> file, wrote |-> FALSE]
    ELSE IF fault = name THEN [ok |-> FALSE, file |-> None, wrote |-> FALSE]
    ELSE [ok |-> TRUE, file |-> Some(contents), wrote |-> TRUE]

\* fs::write of the contents, whatever is at the path
WriteAlways(file, contents, fault, name) ==
    IF fault = name THEN [ok |-> FALSE, file |-> file, wrote |-> FALSE]
    ELSE [ok |-> TRUE, file |-> Some(contents), wrote |-> TRUE]

\* A bug create_all could have: the defaults written with fs::write
CreateAllOverwriting(dirs_home, fault) ==
    LET root == CreateDirAll(dirs_home.root_dir, fault, "root_dir")
        bin == IF root.ok THEN CreateDirAll(dirs_home.bin_dir, fault, "bin_dir")
               ELSE [ok |-> FALSE, exists |-> dirs_home.bin_dir]
        tools == IF bin.ok THEN CreateDirAll(dirs_home.tools_dir, fault, "tools_dir")
                 ELSE [ok |-> FALSE, exists |-> dirs_home.tools_dir]
        manifest == IF tools.ok
                  THEN WriteAlways(dirs_home.user_config, DEFAULT_USER_CONFIG, fault,
                                     "user_config")
                  ELSE [ok |-> FALSE, file |-> dirs_home.user_config, wrote |-> FALSE]
        auth == IF manifest.ok
                THEN WriteAlways(dirs_home.auth_store, DEFAULT_AUTH_CONFIG, fault,
                                   "auth_store")
                ELSE [ok |-> FALSE, file |-> dirs_home.auth_store, wrote |-> FALSE]
    IN  [ok |-> auth.ok,
         home |-> Home(root.exists, bin.exists, tools.exists, manifest.file, auth.file),
         wrote |-> (IF manifest.wrote THEN {"user_config"} ELSE {})
                       \cup (IF auth.wrote THEN {"auth_store"} ELSE {})]

\* ForemanPaths::create_all
CreateAll(dirs_home, fault) ==
    LET root == CreateDirAll(dirs_home.root_dir, fault, "root_dir")
        bin == IF root.ok THEN CreateDirAll(dirs_home.bin_dir, fault, "bin_dir")
               ELSE [ok |-> FALSE, exists |-> dirs_home.bin_dir]
        tools == IF bin.ok THEN CreateDirAll(dirs_home.tools_dir, fault, "tools_dir")
                 ELSE [ok |-> FALSE, exists |-> dirs_home.tools_dir]
        manifest == IF tools.ok
                  THEN WriteIfNotFound(dirs_home.user_config, DEFAULT_USER_CONFIG, fault,
                                     "user_config")
                  ELSE [ok |-> FALSE, file |-> dirs_home.user_config, wrote |-> FALSE]
        auth == IF manifest.ok
                THEN WriteIfNotFound(dirs_home.auth_store, DEFAULT_AUTH_CONFIG, fault,
                                   "auth_store")
                ELSE [ok |-> FALSE, file |-> dirs_home.auth_store, wrote |-> FALSE]
    IN  [ok |-> auth.ok,
         home |-> Home(root.exists, bin.exists, tools.exists, manifest.file, auth.file),
         wrote |-> (IF manifest.wrote THEN {"user_config"} ELSE {})
                       \cup (IF auth.wrote THEN {"auth_store"} ELSE {})]

FileContents == {None, Some(DEFAULT_USER_CONFIG), Some(DEFAULT_AUTH_CONFIG), Some("invalid"), Some("")}

\* No root yet, or a root with any of its directories and files
Homes ==
    {Home(FALSE, FALSE, FALSE, None, None)}
        \cup {Home(TRUE, bin, tools, manifest, auth) :
                bin \in BOOLEAN, tools \in BOOLEAN, manifest \in FileContents,
                auth \in FileContents}

CreateAllFaults == {"none", "root_dir", "bin_dir", "tools_dir", "user_config", "auth_store"}

MaxCalls == 2

NotCalled == [calls |-> 0, ok |-> FALSE, wrote |-> {}]

PathsInit ==
    /\ foreman_home \in Homes
    /\ create_all_out = NotCalled

PathsIdle ==
    /\ foreman_home = Home(FALSE, FALSE, FALSE, None, None)
    /\ create_all_out = NotCalled

\* A call of create_all, at the start of an invocation of the manager
CreateAllCall(fault) ==
    /\ create_all_out.calls < MaxCalls
    /\ \E result \in {CreateAll(foreman_home, fault)} :
          /\ foreman_home' = result.home
          /\ create_all_out' = [calls |-> create_all_out.calls + 1, ok |-> result.ok,
                                wrote |-> result.wrote]

----------------------------------------------------------------------------
\* The cache keys and executable names of two tool specifications

GitlabPrefixed == <<"g", "i", "t", "l", "a", "b", "@">> \o PathLower

PairPaths ==
    {PathLower, PathUpper, <<"A", "/", "B">>, <<"c", "/", "d">>, GitlabPrefixed,
     ArtifactoryHost \o <<"@">> \o PathLower}

PairSpecs ==
    {ToolSpec(protocol, host, path, Req(1, 0)) :
        protocol \in {"Github", "Gitlab", "Artifactory"},
        host \in {GITHUB, GITLAB, ForgeHost, ArtifactoryHost},
        path \in PairPaths}

KeysInit ==
    /\ spec_pair \in PairSpecs \X PairSpecs
    /\ key_pair = None

KeysIdle ==
    /\ spec_pair = <<>>
    /\ key_pair = None

\* cache_key of both specifications, and tool_identifier_to_exe_name of both for
\* one version
CacheKeysCall(version) ==
    /\ key_pair = None
    /\ key_pair' = Some([keys |-> <<CacheKey(spec_pair[1]), CacheKey(spec_pair[2])>>,
                         exe_names |-> <<ToolIdentifierToExeName(spec_pair[1], version),
                                         ToolIdentifierToExeName(spec_pair[2], version)>>])
    /\ UNCHANGED spec_pair

----------------------------------------------------------------------------
\* generate_artifactory_path (artifactory_path.rs)

VALID_OS == {<<"w", "i", "n", "d", "o", "w", "s">>, <<"m", "a", "c", "o", "s">>, <<"l", "i", "n", "u", "x">>}

VALID_ARCH == {<<"x", "8", "6", "_", "6", "4">>, <<"a", "r", "m", "6", "4">>, <<"a", "a", "r", "c", "h", "6", "4">>, <<"i", "6", "8", "6">>}

\* check_valid_os
CheckValidOs(operating_system) == operating_system \in VALID_OS

CheckValidArchLenient(architecture) == TRUE

\* check_valid_arch
CheckValidArch(architecture) == architecture \in VALID_ARCH

\* check_valid_version: a leading v, and Version::parse of what follows it
CheckValidVersion(version) ==
    /\ version # <<>>
    /\ version[1] = "v"
    /\ ParseVersion(Tail(version)) # None

\* generate_artifactory_path: the path, or None for an error
GenerateArtifactoryPath(repo, tool_name, version, operating_system, architecture) ==
    IF ~CheckValidOs(operating_system) THEN None
    ELSE IF ~CheckValidVersion(version) THEN None
    ELSE IF architecture # None /\ ~CheckValidArch(architecture[1]) THEN None
    ELSE LET full_tool_name ==
                 tool_name \o <<"-">> \o version \o <<"-">> \o operating_system
                 \o (IF architecture # None THEN <<"-">> \o architecture[1] ELSE <<>>)
                 \o <<".", "z", "i", "p">>
         IN  Some(<<"a", "r", "t", "i", "f", "a", "c", "t", "o", "r", "y", "/">> \o repo \o <<"/">> \o tool_name \o <<"/">> \o version
                  \o <<"/">> \o full_tool_name)

\* A version argument: the text, and whether it is a v followed by a complete
\* semantic version
VersionArg(text, complete) == [text |-> text, complete |-> complete]

VersionArgs ==
    {VersionArg(<<"v", "0", ".", "1", ".", "0">>, TRUE), VersionArg(<<"v", "1", ".", "2", ".", "3">>, TRUE), VersionArg(<<"0", ".", "1", ".", "0">>, FALSE),
     VersionArg(<<"v", "0", ".", "1">>, FALSE), VersionArg(<<"v">>, FALSE), VersionArg(<<>>, FALSE),
     VersionArg(<<"v", "v", "0", ".", "1", ".", "0">>, FALSE), VersionArg(<<"V", "0", ".", "1", ".", "0">>, FALSE), VersionArg(<<"v", "0", ".", "1", ".", "0", ".">>, FALSE)}

OsArgs == VALID_OS \cup {<<"f", "a", "k", "e", "_", "o", "s">>, <<"L", "i", "n", "u", "x">>, <<"d", "a", "r", "w", "i", "n">>, <<>>}

ArchArgs == {None} \cup {Some(a) : a \in VALID_ARCH \cup {<<"f", "a", "k", "e", "_", "a", "r", "c", "h">>, <<"A", "R", "M", "6", "4">>, <<"x", "8", "6">>, <<>>}}

PathArgs ==
    [repo : {<<"r", "e", "p", "o">>, <<"r", "/", "s">>}, tool_name : {<<"t", "o", "o", "l", "_", "n", "a", "m", "e">>}, version : VersionArgs,
     operating_system : OsArgs, architecture : ArchArgs]

ArtifactoryPathInit ==
    /\ path_args \in PathArgs
    /\ path_out = None

ArtifactoryPathIdle ==
    /\ path_args = <<>>
    /\ path_out = None

\* One call of generate_artifactory_path
GenerateArtifactoryPathCall ==
    /\ path_out = None
    /\ path_out' = Some(GenerateArtifactoryPath(path_args.repo, path_args.tool_name,
                                                path_args.version.text,
                                                path_args.operating_system,
                                                path_args.architecture))
    /\ UNCHANGED path_args

----------------------------------------------------------------------------
\* download on one collection of releases returned in two orders

MaxReleases == 3

\* Releases of one tool: two whose tags are the same version, tags that are no
\* version, a release without an asset for the platform
ReleasePool ==
    {Release(<<"1", ".", "0", ".", "0">>, LinuxOnly(<<"u", "1">>)),
     Release(<<"v", "1", ".", "0", ".", "0">>, LinuxOnly(<<"u", "2">>)),
     Release(<<"1", ".", "1", ".", "0">>, LinuxOnly(<<"u", "3">>)),
     Release(<<"v", "2", ".", "0", ".", "0">>, LinuxOnly(<<"u", "4">>)),
     Release(<<"n", "i", "g", "h", "t", "l", "y">>, LinuxOnly(<<"u", "5">>)),
     Release(<<"1", ".", "2", ".", "0">>, <<ReleaseAsset(AssetMacosArm, <<"u", "6">>)>>)}

PickInit ==
    /\ \E releases \in {S \in SUBSET ReleasePool : Cardinality(S) \in 1..MaxReleases} :
          release_lists \in Orders(releases) \X Orders(releases)
    /\ selected = None

PickIdle ==
    /\ release_lists = <<>>
    /\ selected = None

\* What download picked: the version it returns and the asset it asked the provider
\* for, or the error
Selection(outcome) ==
    [ok |-> outcome.ok, version |-> outcome.version, error |-> outcome.error,
     url |-> IF Len(outcome.calls) = 2 THEN Some(outcome.calls[2].target) ELSE None]

\* download of one tool with an empty index, on each of the two lists
DownloadBoth(version_req) ==
    /\ selected = None
    /\ \E tool \in {ToolSpec("Github", GITHUB, PathLower, version_req)} :
          selected' =
              Some([i \in 1..2 |->
                       Selection(Download({}, AbsentIndex, EmptyMap, tool,
                                          release_lists[i], "none"))])
    /\ UNCHANGED release_lists

----------------------------------------------------------------------------
\* The artifactory tokens: artifactory-auth (artifactory_auth_store.rs, main.rs)
\* and the lookup of the provider (artiaa_auth.rs)

Credentials(username, token) == [username |-> username, token |-> token]

\* artifactory-auth.json: absent, a map of tokens, or what does not parse
AuthAbsent == [kind |-> "absent", tokens |-> EmptyMap]

AuthTokens(tokens) == [kind |-> "ok", tokens |-> tokens]

AuthGarbage == [kind |-> "garbage", tokens |-> EmptyMap]

\* The key the lookup uses for a url: its host without port and path, in lower case
SetTokenKeyDomain(url_text) ==
    LET rest == IF Len(url_text) >= 8 /\ SubSeq(url_text, 1, 8) = <<"h", "t", "t", "p", "s", ":", "/", "/">>
                THEN SubSeq(url_text, 9, Len(url_text)) ELSE url_text
        host == Split(Split(rest, "/")[1], ":")[1]
    IN  [i \in 1..Len(host) |-> ToLowerChar(host[i])]

\* The key set_token stores under: key.to_owned()
SetTokenKey(key_text) == key_text

\* ArtifactoryAuthStore::set_token: the file read, the token inserted with an empty
\* username, the file written
SetToken(file, key_text, token) ==
    IF file.kind = "garbage" THEN [ok |-> FALSE, file |-> file]
    ELSE [ok |-> TRUE,
          file |-> AuthTokens(MapInsert(file.tokens, SetTokenKey(key_text),
                                        Credentials(<<>>, token)))]

\* Url::parse of an https URL: the host up to the port or the path, in lower case
UrlParse(text) ==
    IF Len(text) < 9 \/ SubSeq(text, 1, 8) # <<"h", "t", "t", "p", "s", ":", "/", "/">> THEN None
    ELSE LET authority == Split(SubSeq(text, 9, Len(text)), "/")[1]
             host == Split(authority, ":")[1]
         IN  IF host = <<>> THEN None
             ELSE Some([host |-> [i \in 1..Len(host) |-> ToLowerChar(host[i])]])

\* Url::domain: the host unless it is an IP address
UrlDomain(url) ==
    IF \A i \in 1..Len(url.host) : IsDigit(url.host[i]) \/ url.host[i] = "."
    THEN None
    ELSE Some(url.host)

\* Tokens::load
TokensLoad(file) ==
    IF file.kind = "garbage" THEN None ELSE Some(file.tokens)

\* Tokens::get_credentials
GetCredentials(tokens, url) ==
    LET domain == UrlDomain(url)
    IN  IF domain # None
        THEN IF domain[1] \in DOMAIN tokens THEN Some(tokens[domain[1]]) ELSE None
        ELSE None

AuthDomain == <<"a", "r", "t", ".", "e", "x", "a", "m", "p", "l", "e">>

\* The URLs of artifactory hosts, as a manifest's [hosts] has them
AuthHosts == {ArtifactoryHost, <<"h", "t", "t", "p", "s", ":", "/", "/", "a", "r", "t", ".", "e", "x", "a", "m", "p", "l", "e", ":", "8", "/">>, <<"h", "t", "t", "p", "s", ":", "/", "/", "A", "R", "T", ".", "e", "x", "a", "m", "p", "l", "e", "/">>, <<"h", "t", "t", "p", "s", ":", "/", "/", "1", "0", ".", "0", ".", "0", ".", "1", "/">>}

\* What the user may pass as <url>: the URLs of the hosts, and bare domains
AuthUrlArgs == AuthHosts \cup {AuthDomain, <<"a", "r", "t", ".", "e", "x", "a", "m", "p", "l", "e", ":", "8">>}

AuthTokenArgs == {<<"t", "1">>, <<"t", "2">>}

AuthFiles ==
    {AuthAbsent, AuthGarbage, AuthTokens(EmptyMap),
     AuthTokens(AuthDomain :> Credentials(<<"u">>, <<"t", "0">>)),
     AuthTokens(ArtifactoryHost :> Credentials(<<>>, <<"t", "0">>))}

AuthInit ==
    /\ auth_file \in AuthFiles
    /\ auth_host \in AuthHosts
    /\ auth_stored = None
    /\ auth_found = None

AuthIdle ==
    /\ auth_file = AuthAbsent
    /\ auth_host = <<>>
    /\ auth_stored = None
    /\ auth_found = None

\* foreman artifactory-auth <url> <token>
ArtifactoryAuthCall(url_arg, token) ==
    /\ auth_stored = None
    /\ \E set \in {SetToken(auth_file, url_arg, token)} :
          /\ auth_file' = set.file
          /\ auth_stored' = Some([url |-> url_arg, token |-> token, ok |-> set.ok])
    /\ UNCHANGED <<auth_host, auth_found>>

\* The provider's lookup for a tool of the host, in a later run of the manager:
\* Tokens::load and get_credentials
CredentialsLookup ==
    /\ auth_stored # None
    /\ auth_found = None
    /\ auth_found' =
          Some(IF TokensLoad(auth_file) = None THEN [ok |-> FALSE, credentials |-> None]
               ELSE [ok |-> TRUE,
                     credentials |-> GetCredentials(TokensLoad(auth_file)[1],
                                                    UrlParse(auth_host)[1])])
    /\ UNCHANGED <<auth_file, auth_host, auth_stored>>

----------------------------------------------------------------------------
\* The GitLab provider (tool_provider/gitlab.rs)

\* The characters urlencoding::encode leaves as they are
Unreserved(c) ==
    \/ IsDigit(c)
    \/ \E i \in 1..Len(Lower) : Lower[i] = c \/ Upper[i] = c
    \/ c \in {"-", "_", ".", "~"}

\* The escapes of the other characters of the model's paths
PercentEncoded(c) ==
    CASE c = "/" -> <<"%", "2", "F">>
      [] c = "@" -> <<"%", "4", "0">>
      [] c = ":" -> <<"%", "3", "A">>
      [] c = " " -> <<"%", "2", "0">>

\* urlencoding::encode
RECURSIVE UrlEncode(_)
UrlEncode(s) ==
    IF s = <<>> THEN <<>>
    ELSE (IF Unreserved(s[1]) THEN <<s[1]>> ELSE PercentEncoded(s[1]))
         \o UrlEncode(Tail(s))

\* The url get_releases would ask were it to use the host of the specification
GitlabReleasesUrlOfHost(repo, host) ==
    host \o <<"a", "p", "i", "/", "v", "4", "/", "p", "r", "o", "j", "e", "c", "t", "s", "/">> \o UrlEncode(repo) \o <<"/", "r", "e", "l", "e", "a", "s", "e", "s">>

\* The url get_releases asks: format!("https://gitlab.com/api/v4/projects/{}/releases",
\* urlencoding::encode(repo))
GitlabReleasesUrl(repo, host) ==
    <<"h", "t", "t", "p", "s", ":", "/", "/", "g", "i", "t", "l", "a", "b", ".", "c", "o", "m", "/", "a", "p", "i", "/", "v", "4", "/", "p", "r", "o", "j", "e", "c", "t", "s", "/">> \o UrlEncode(repo) \o <<"/", "r", "e", "l", "e", "a", "s", "e", "s">>

\* GitlabProvider::get_releases: the request, with the token of auth.toml if there
\* is one, and the releases of the response
GitlabGetReleases(repo, host, token, response) ==
    [request |-> [url |-> GitlabReleasesUrl(repo, host), private_token |-> token],
     ok |-> response.kind = "ok",
     error |-> CASE response.kind = "ok" -> ""
                 [] response.kind = "failed" -> "RequestFailed"
                 [] response.kind = "garbage" -> "UnexpectedResponseBody",
     releases |-> IF response.kind = "ok" THEN response.releases ELSE <<>>]

GitlabResponses ==
    {[kind |-> "ok", releases |-> ListOld], [kind |-> "ok", releases |-> <<>>],
     [kind |-> "failed", releases |-> <<>>], [kind |-> "garbage", releases |-> <<>>]}

\* The hosts a manifest may map to the gitlab protocol
GitlabHosts == {GITLAB, ForgeHost, ArtifactoryHost}

GitlabPaths ==
    {PathLower, PathUpper, <<"c", "/", "d">>, <<"g", "/", "s", "/", "p">>, <<"x">>,
     <<"a", "@", "b">>}

GitlabInit ==
    /\ gl_tool \in {ToolSpec("Gitlab", host, path, Req(1, 0)) :
                       host \in GitlabHosts, path \in GitlabPaths}
    /\ gl_token \in {None, Some(<<"t", "1">>)}
    /\ gl_request = None
    /\ gl_out = None

GitlabIdle ==
    /\ gl_tool = <<>>
    /\ gl_token = None
    /\ gl_request = None
    /\ gl_out = None

\* provider.get_releases of download, for a tool of the gitlab protocol
GitlabGetReleasesCall(response) ==
    /\ gl_request = None
    /\ \E got \in {GitlabGetReleases(gl_tool.path, gl_tool.host, gl_token, response)} :
          /\ gl_request' = Some(got.request)
          /\ gl_out' = Some([ok |-> got.ok, error |-> got.error, releases |-> got.releases])
    /\ UNCHANGED <<gl_tool, gl_token>>

----------------------------------------------------------------------------
\* Shims of tools whose specifications differ only in the case of the path, on one root

MaxShims == 2

VariantTools == {ToolLower10, ToolUpper10, ToolLower11, ToolUpper20}

VariantInit ==
    /\ variant_last = None
    /\ variant_shims = 0

VariantIdle == VariantInit

\* ToolInvocation::run for one tool: ToolCache::load, download_if_necessary, and the
\* path ToolCache::run executes (get_tool_exe_path)
ShimOfTool(tool, releases, fault) ==
    /\ variant_shims < MaxShims
    /\ \E loaded \in {Load(index_file)} :
       \E outcome \in {DownloadIfNecessary(loaded.tools, index_file, tools_dir, tool,
                                           releases, fault)} :
          IF ~loaded.ok
          THEN /\ variant_last' = Some([tool |-> tool, ok |-> FALSE, version |-> None,
                                        wrote |-> None, tool_path |-> None])
               /\ UNCHANGED <<index_file, tools_dir>>
          ELSE /\ index_file' = outcome.file
               /\ tools_dir' = outcome.dir
               /\ variant_last' =
                     Some([tool |-> tool, ok |-> outcome.ok, version |-> outcome.version,
                           wrote |-> outcome.wrote,
                           tool_path |->
                               IF outcome.ok
                               THEN Some(ToolIdentifierToExeName(tool, outcome.version[1]))
                               ELSE None])
    /\ variant_shims' = variant_shims + 1
    /\ UNCHANGED bin_dir

----------------------------------------------------------------------------
\* Installs of several manager processes on one root. Each process holds its own
\* ToolCache, loaded once; fs::write opens tool-cache.json truncating it and then
\* writes, and other processes run between the two.

Procs == {1, 2}

MaxInstalls == 3

ToolGitlab20 == ToolSpec("Gitlab", GITLAB, <<"c", "/", "d">>, Req(2, 0))

ConcManifests ==
    {OneTool(AliasA, ToolLower10),
     OneTool(AliasB, ToolGitlab20),
     MapInsert(OneTool(AliasA, ToolLower10), AliasB, ToolGitlab20)}

\* tool-cache.json between the open that truncates it and the write
TruncatedIndex == [kind |-> "empty", entries |-> {}]

NotStarted ==
    [pc |-> "idle", tools |-> EmptyMap, cache |-> {}, pending |-> <<>>,
     contents |-> AbsentIndex, error |-> "", solo |-> FALSE]

ConcInit ==
    /\ procs = [p \in Procs |-> NotStarted]
    /\ last_writer = None
    /\ installs = 0

ConcIdle == ConcInit

Active(p) == procs[p].pc \in {"install", "writing"}

\* The length of the serialization, up to the punctuation: only the order of two
\* lengths is used
RECURSIVE SerializedSize(_)
SerializedSize(entries) ==
    IF entries = {} THEN 0
    ELSE LET e == CHOOSE x \in entries : TRUE
             RECURSIVE Chars(_)
             Chars(i) == IF i = 0 THEN 0 ELSE Len(e.versions[i]) + 1 + Chars(i - 1)
         IN  Len(e.key) + 1 + Chars(Len(e.versions)) + SerializedSize(entries \ {e})

\* The file after a process wrote contents from offset 0 through its own handle:
\* the bytes another process wrote since the truncation stay beyond the end of
\* the shorter contents
Overwrite(file, contents) ==
    CASE file.kind = "empty" -> {contents}
      [] file.kind = "json" ->
            IF SerializedSize(file.entries) > SerializedSize(contents.entries)
            THEN {GarbageIndex} ELSE {contents}
      [] OTHER -> {contents, GarbageIndex}

\* Subcommand::Install of process p, up to the walk: ToolCache::load
ConcStart(p, tools) ==
    \E loaded \in {Load(index_file)} :
        /\ ~Active(p)
        /\ installs < MaxInstalls
        /\ installs' = installs + 1
        /\ procs' = [q \in Procs |->
                        IF q = p
                        THEN [pc |-> IF loaded.ok THEN "install" ELSE "exited",
                              tools |-> tools,
                              cache |-> loaded.tools,
                              pending |-> IF loaded.ok THEN SortedKeys(DOMAIN tools)
                                          ELSE <<>>,
                              contents |-> procs[p].contents,
                              error |-> loaded.error,
                              solo |-> \A r \in Procs \ {p} : ~Active(r)]
                        ELSE [procs[q] EXCEPT !.solo = @ /\ ~Active(q)]]
        /\ UNCHANGED <<rootVars, last_writer>>

\* One tool of the walk of process p: download_if_necessary, as far as the open
\* of tool-cache.json in save when the tool is downloaded, and all of it with
\* add_self_alias when the process's cache holds a version
ConcStep(p, releases) ==
    /\ procs[p].pc = "install"
    /\ procs[p].pending # <<>>
    /\ \E tool_alias \in {Head(procs[p].pending)} :
       \E outcome \in {DownloadIfNecessary(procs[p].cache, index_file, tools_dir,
                                           procs[p].tools[tool_alias], releases, "none")} :
          IF outcome.wrote = None
          THEN /\ bin_dir' = AliasIfDownloaded(outcome.ok, bin_dir, tool_alias, "none").dir
               /\ procs' = [procs EXCEPT ![p].pending = Rest(@, ~outcome.ok)]
               /\ UNCHANGED <<index_file, tools_dir, last_writer, installs>>
          ELSE /\ tools_dir' = outcome.dir
               /\ index_file' = TruncatedIndex
               /\ procs' = [procs EXCEPT ![p].pc = "writing",
                                         ![p].cache = outcome.tools,
                                         ![p].contents = outcome.file]
               /\ UNCHANGED <<bin_dir, last_writer, installs>>

\* The write of save in process p, and add_self_alias after it
ConcWrite(p) ==
    /\ procs[p].pc = "writing"
    /\ index_file' \in Overwrite(index_file, procs[p].contents)
    /\ last_writer' = Some(p)
    /\ bin_dir' = AddSelfAlias(bin_dir, Head(procs[p].pending), "none").dir
    /\ procs' = [procs EXCEPT ![p].pc = "install", ![p].pending = Rest(@, FALSE)]
    /\ UNCHANGED <<tools_dir, installs>>

\* Subcommand::Install of process p, after the walk
ConcFinish(p) ==
    /\ procs[p].pc = "install"
    /\ procs[p].pending = <<>>
    /\ procs' = [procs EXCEPT ![p].pc = "exited"]
    /\ UNCHANGED <<rootVars, last_writer, installs>>

RunIdle == RunInit

AggIdle == dirs = <<>> /\ user_config = AbsentFile /\ aggregated = NotAggregated

SelIdle == sel_assets = <<>> /\ sel_keywords = <<>> /\ chosen = [done |-> FALSE, index |-> None]

Init ==
    MainInit /\ AggIdle /\ SelIdle /\ RunIdle /\ ConcIdle /\ ToolIdle /\ GithubIdle
        /\ ArtifactoryIdle /\ PathsIdle
        /\ KeysIdle
        /\ ArtifactoryPathIdle
        /\ PickIdle
        /\ AuthIdle
        /\ GitlabIdle
        /\ VariantIdle

Next ==
    \/ \E stem \in Stems, rest \in ArgLists, w \in Worlds :
          ShimStart(stem, rest, w) /\ UNCHANGED offInvocation
    \/ ShimLoad /\ UNCHANGED offInvocation
    \/ \E releases \in ReleaseLists, fault \in Faults :
          ShimDownload(releases, fault) /\ UNCHANGED offInvocation
    \/ \E status \in ChildStatuses : ShimRun(status) /\ UNCHANGED offInvocation
    \/ \E w \in Worlds : InstallStart(w) /\ UNCHANGED offInvocation
    \/ \E releases \in ReleaseLists, fault \in Faults :
          InstallStep(releases, fault) /\ UNCHANGED offInvocation
    \/ InstallFinish /\ UNCHANGED offInvocation

\* The manager, invoked again and again on one root
Spec == Init /\ [][Next]_vars

NextAggregate == AggregateCall /\ UNCHANGED offAggregate

InitAggregate ==
    AggregateInit /\ SelIdle /\ MainInit /\ RunIdle /\ ConcIdle /\ ToolIdle /\ GithubIdle
        /\ ArtifactoryIdle /\ PathsIdle
        /\ KeysIdle
        /\ ArtifactoryPathIdle
        /\ PickIdle
        /\ AuthIdle
        /\ GitlabIdle
        /\ VariantIdle

\* ConfigFile::aggregate on every chain of manifests
SpecAggregate == InitAggregate /\ [][NextAggregate]_vars

NextChoose == ChooseCall /\ UNCHANGED offChoose

InitChoose ==
    ChooseInit /\ AggIdle /\ MainInit /\ RunIdle /\ ConcIdle /\ ToolIdle /\ GithubIdle
        /\ ArtifactoryIdle /\ PathsIdle
        /\ KeysIdle
        /\ ArtifactoryPathIdle
        /\ PickIdle
        /\ AuthIdle
        /\ GitlabIdle
        /\ VariantIdle

\* choose_asset on every asset list and keyword list
SpecChoose == InitChoose /\ [][NextChoose]_vars

NextRun ==
    \/ RunEntry /\ UNCHANGED offRun
    \/ \E spawned \in BOOLEAN :
          RunSpawn(spawned) /\ UNCHANGED offRun
    \/ \E signal \in Registered :
          SignalArrives(signal) /\ UNCHANGED offRun
    \/ \E status \in RunStatuses :
          ChildTerminates(status) /\ UNCHANGED offRun
    \/ \E signal \in Registered :
          SignalThreadNext(signal) /\ UNCHANGED offRun
    \/ SignalThreadClosed /\ UNCHANGED offRun
    \/ SelectChild /\ UNCHANGED offRun
    \/ SelectKill /\ UNCHANGED offRun
    \/ CloseHandle /\ UNCHANGED offRun
    \/ JoinAndReturn /\ UNCHANGED offRun
    \/ JoinAndExit /\ UNCHANGED offRun

InitRun ==
    RunInit /\ AggIdle /\ SelIdle /\ MainInit /\ ConcIdle /\ ToolIdle /\ GithubIdle
        /\ ArtifactoryIdle /\ PathsIdle
        /\ KeysIdle
        /\ ArtifactoryPathIdle
        /\ PickIdle
        /\ AuthIdle
        /\ GitlabIdle
        /\ VariantIdle

\* One call of process::run, with the signals and the child's end at any moment
SpecRun == InitRun /\ [][NextRun]_vars

\* The steps of the manager's own threads: the operating system schedules the main
\* thread and the signal thread, so a step of either that stays possible is taken;
\* the arrival of a signal and the end of the child are not required to happen
FairRun ==
    /\ WF_vars(RunEntry /\ UNCHANGED offRun)
    /\ WF_vars((\E spawned \in BOOLEAN : RunSpawn(spawned)) /\ UNCHANGED offRun)
    /\ WF_vars((\E signal \in Registered : SignalThreadNext(signal)) /\ UNCHANGED offRun)
    /\ WF_vars(SignalThreadClosed /\ UNCHANGED offRun)
    /\ WF_vars(SelectChild /\ UNCHANGED offRun)
    /\ WF_vars(SelectKill /\ UNCHANGED offRun)
    /\ WF_vars(CloseHandle /\ UNCHANGED offRun)
    /\ WF_vars(JoinAndReturn /\ UNCHANGED offRun)
    /\ WF_vars(JoinAndExit /\ UNCHANGED offRun)

\* One call of process::run with its threads scheduled fairly
SpecRunFair == InitRun /\ [][NextRun]_vars /\ FairRun

NextToolSpec ==
    \/ ToolSpecFromValueCall /\ UNCHANGED offToolSpec
    \/ CacheKeyCall /\ UNCHANGED offToolSpec

InitToolSpec ==
    ToolInit /\ AggIdle /\ SelIdle /\ MainInit /\ RunIdle /\ ConcIdle /\ GithubIdle
        /\ ArtifactoryIdle /\ PathsIdle
        /\ KeysIdle
        /\ ArtifactoryPathIdle
        /\ PickIdle
        /\ AuthIdle
        /\ GitlabIdle
        /\ VariantIdle

\* ToolSpec::from_value on every entry and host table, then cache_key
SpecToolSpec == InitToolSpec /\ [][NextToolSpec]_vars

NextGithub ==
    \/ \E repo \in {PathLower, PathUpper}, loaded \in BOOLEAN :
          GithubStart(repo, loaded) /\ UNCHANGED offGithub
    \/ \E response \in Responses : GithubPage(response) /\ UNCHANGED offGithub

InitGithub ==
    GithubInit /\ AggIdle /\ SelIdle /\ MainInit /\ RunIdle /\ ConcIdle /\ ToolIdle
        /\ ArtifactoryIdle /\ PathsIdle
        /\ KeysIdle
        /\ ArtifactoryPathIdle
        /\ PickIdle
        /\ AuthIdle
        /\ GitlabIdle
        /\ VariantIdle

\* One call of GithubProvider::get_releases against any server
SpecGithub == InitGithub /\ [][NextGithub]_vars

NextArtifactory ==
    \E fault \in ArtifactoryFaults : ArtifactoryGetReleases(fault) /\ UNCHANGED offArtifactory

InitArtifactory ==
    ArtifactoryInit /\ AggIdle /\ SelIdle /\ MainInit /\ RunIdle /\ ConcIdle /\ ToolIdle
        /\ GithubIdle /\ PathsIdle
        /\ KeysIdle
        /\ ArtifactoryPathIdle
        /\ PickIdle
        /\ AuthIdle
        /\ GitlabIdle
        /\ VariantIdle

\* ArtifactoryProvider::get_releases on every short listing
SpecArtifactory == InitArtifactory /\ [][NextArtifactory]_vars

NextCreateAll == \E fault \in CreateAllFaults : CreateAllCall(fault) /\ UNCHANGED offCreateAll

InitCreateAll ==
    PathsInit /\ AggIdle /\ SelIdle /\ MainInit /\ RunIdle /\ ConcIdle /\ ToolIdle
        /\ GithubIdle /\ ArtifactoryIdle
        /\ KeysIdle
        /\ ArtifactoryPathIdle
        /\ PickIdle
        /\ AuthIdle
        /\ GitlabIdle
        /\ VariantIdle

\* create_all called on every root, also one it was called on before
SpecCreateAll == InitCreateAll /\ [][NextCreateAll]_vars

NextCacheKeys ==
    \E version \in {<<1, 0, 0>>, <<1, 1, 0>>} : CacheKeysCall(version) /\ UNCHANGED offCacheKeys

InitCacheKeys ==
    KeysInit
        /\ MainInit /\ AggIdle /\ SelIdle /\ RunIdle /\ ConcIdle /\ ToolIdle /\ GithubIdle
        /\ ArtifactoryIdle /\ PathsIdle
        /\ ArtifactoryPathIdle
        /\ PickIdle
        /\ AuthIdle
        /\ GitlabIdle
        /\ VariantIdle

\* cache_key on every two specifications of the model's paths and hosts
SpecCacheKeys == InitCacheKeys /\ [][NextCacheKeys]_vars

NextArtifactoryPath ==
    GenerateArtifactoryPathCall /\ UNCHANGED offArtifactoryPath

InitArtifactoryPath ==
    ArtifactoryPathInit
         /\ MainInit /\ AggIdle /\ SelIdle /\ RunIdle /\ ConcIdle /\ ToolIdle /\ GithubIdle
        /\ ArtifactoryIdle /\ PathsIdle /\ KeysIdle
        /\ PickIdle
        /\ AuthIdle
        /\ GitlabIdle
        /\ VariantIdle

\* generate_artifactory_path on every combination of the model's arguments
SpecArtifactoryPath == InitArtifactoryPath /\ [][NextArtifactoryPath]_vars

NextPick ==
    \E version_req \in {Req(1, 0), Req(2, 0)} :
        DownloadBoth(version_req) /\ UNCHANGED offPick

InitPick ==
    PickInit
         /\ MainInit /\ AggIdle /\ SelIdle /\ RunIdle /\ ConcIdle /\ ToolIdle /\ GithubIdle
        /\ ArtifactoryIdle /\ PathsIdle /\ KeysIdle /\ ArtifactoryPathIdle
        /\ AuthIdle
        /\ GitlabIdle
        /\ VariantIdle

\* download on every two orders of every collection of the model's releases
SpecPick == InitPick /\ [][NextPick]_vars

NextAuth ==
    \/ \E url_arg \in AuthUrlArgs, token \in AuthTokenArgs :
          ArtifactoryAuthCall(url_arg, token) /\ UNCHANGED offAuth
    \/ CredentialsLookup /\ UNCHANGED offAuth

InitAuth ==
    AuthInit
         /\ MainInit /\ AggIdle /\ SelIdle /\ RunIdle /\ ConcIdle /\ ToolIdle /\ GithubIdle
        /\ ArtifactoryIdle /\ PathsIdle /\ KeysIdle /\ ArtifactoryPathIdle /\ PickIdle
        /\ GitlabIdle
        /\ VariantIdle

\* artifactory-auth, and then the provider's lookup
SpecAuth == InitAuth /\ [][NextAuth]_vars

InitAggregateFiles ==
    AggregateFilesInit /\ SelIdle /\ MainInit /\ RunIdle /\ ConcIdle /\ ToolIdle /\ GithubIdle
        /\ ArtifactoryIdle /\ PathsIdle
        /\ KeysIdle
        /\ ArtifactoryPathIdle
        /\ PickIdle
        /\ AuthIdle
        /\ GitlabIdle
        /\ VariantIdle

\* ConfigFile::aggregate on every chain of manifests, broken ones among them
SpecAggregateFiles == InitAggregateFiles /\ [][NextAggregate]_vars

NextGitlab ==
    \E response \in GitlabResponses :
        GitlabGetReleasesCall(response) /\ UNCHANGED offGitlab

InitGitlab ==
    GitlabInit
         /\ MainInit /\ AggIdle /\ SelIdle /\ RunIdle /\ ConcIdle /\ ToolIdle /\ GithubIdle
        /\ ArtifactoryIdle /\ PathsIdle /\ KeysIdle /\ ArtifactoryPathIdle /\ PickIdle
        /\ AuthIdle
        /\ VariantIdle

\* get_releases of the GitLab provider for tools of every host and path of the model
SpecGitlab == InitGitlab /\ [][NextGitlab]_vars

NextVariants ==
    \E tool \in VariantTools, releases \in ReleaseLists, fault \in Faults :
        ShimOfTool(tool, releases, fault) /\ UNCHANGED offVariants

InitVariants ==
    VariantInit
         /\ MainInit /\ AggIdle /\ SelIdle /\ RunIdle /\ ConcIdle /\ ToolIdle /\ GithubIdle
        /\ ArtifactoryIdle /\ PathsIdle /\ KeysIdle /\ ArtifactoryPathIdle /\ PickIdle
        /\ AuthIdle /\ GitlabIdle

\* Shims of the case variants of one tool, one after the other on one root
SpecVariants == InitVariants /\ [][NextVariants]_vars

NextConcurrent ==
    \/ \E p \in Procs, tools \in ConcManifests :
          ConcStart(p, tools) /\ UNCHANGED offConcurrent
    \/ \E p \in Procs : ConcStep(p, ListFull) /\ UNCHANGED offConcurrent
    \/ \E p \in Procs : ConcWrite(p) /\ UNCHANGED offConcurrent
    \/ \E p \in Procs : ConcFinish(p) /\ UNCHANGED offConcurrent

InitConcurrent ==
    ConcInit /\ AggIdle /\ SelIdle /\ MainInit /\ RunIdle /\ ToolIdle /\ GithubIdle
        /\ ArtifactoryIdle /\ PathsIdle
        /\ KeysIdle
        /\ ArtifactoryPathIdle
        /\ PickIdle
        /\ AuthIdle
        /\ GitlabIdle
        /\ VariantIdle

\* Installs started at any moment by two processes on one root
SpecConcurrent == InitConcurrent /\ [][NextConcurrent]_vars

----------------------------------------------------------------------------
\* What is checked of ConfigFile::aggregate (SpecAggregate)

\* The chain of manifests: the working directory, its ancestors, the user's manifest
Chain == dirs \o <<user_config>>

Defines(file, alias) == file.kind = "toml" /\ alias \in DOMAIN file.tools

Defined == {alias \in AggAliases : \E i \in 1..Len(Chain) : Defines(Chain[i], alias)}

FirstDefiner(alias) ==
    CHOOSE i \in 1..Len(Chain) :
        Defines(Chain[i], alias) /\ \A j \in 1..(i - 1) : ~Defines(Chain[j], alias)

\* C1: for every chain of manifests that parse, the aggregated manifest gives an
\* alias the specification of the first manifest of the chain that defines it,
\* and holds no alias that no manifest defines.
AggregateFirstWins ==
    (aggregated.done /\ \A i \in 1..Len(Chain) : Chain[i].kind # "invalid") =>
        /\ aggregated.ok
        /\ DOMAIN aggregated.config[1].tools = Defined
        /\ \A alias \in Defined :
              aggregated.config[1].tools[alias] = Chain[FirstDefiner(alias)].tools[alias]

\* Two manifests of the chain define one alias differently, a third defines another
AggregateFirstWinsWitness ==
    /\ aggregated.done
    /\ Len(dirs) = MaxDepth
    /\ Defines(dirs[1], AliasA) /\ dirs[1].tools[AliasA] = ToolLower10
    /\ Defines(dirs[2], AliasA) /\ dirs[2].tools[AliasA] = ToolUpper20
    /\ ~Defines(dirs[1], AliasB) /\ ~Defines(dirs[2], AliasB)
    /\ Defines(user_config, AliasB)
    /\ aggregated.ok
    /\ aggregated.config[1].tools[AliasA] = ToolLower10
    /\ aggregated.config[1].tools[AliasB] = user_config.tools[AliasB]

----------------------------------------------------------------------------
\* What is checked of choose_asset (SpecChoose)

MatchingKeywords ==
    {k \in 1..Len(sel_keywords) :
        \E i \in 1..Len(sel_assets) : Contains(sel_assets[i], sel_keywords[k])}

\* C9: the result of choose_asset is the first asset, in listed order, whose name
\* contains the earliest keyword that is a substring of any asset name, and it is
\* no match exactly when no keyword is a substring of any asset name; the asset
\* names and the keywords determine it.
ChooseAssetEarliestKeyword ==
    chosen.done =>
        /\ chosen.index = None <=> MatchingKeywords = {}
        /\ MatchingKeywords # {} =>
              \E k \in MatchingKeywords, i \in 1..Len(sel_assets) :
                  /\ \A other \in MatchingKeywords : k <= other
                  /\ Contains(sel_assets[i], sel_keywords[k])
                  /\ \A j \in 1..(i - 1) : ~Contains(sel_assets[j], sel_keywords[k])
                  /\ chosen.index = Some(i)

\* The asset chosen is the last one listed: an earlier asset matches a later keyword
ChooseAssetEarliestKeywordWitness ==
    /\ chosen.done
    /\ sel_keywords = KeywordsMacosAarch64
    /\ sel_assets = <<AssetLinux, AssetMacosX86, AssetMacosArm>>
    /\ chosen.index = Some(3)

----------------------------------------------------------------------------
\* What is checked of the tool cache and of the invocations (Spec)

IsMax(v, S) == v \in S /\ \A w \in S : ~VersionLess(v, w)

\* The state is one where the next step is a call of download_if_necessary
CallsDownloadIfNecessary == pc = "shim_loaded" \/ (pc = "install" /\ pending # <<>>)

CalledTool == config[1].tools[IF pc = "install" THEN Head(pending) ELSE argv[1]]

\* The versions of the index entry of the called tool's cache key that satisfy
\* the tool's requirement
SatisfyingIndexed ==
    {v \in UNION {e.versions : e \in {x \in cache : CiEq(x.key, CacheKey(CalledTool))}} :
        Matches(CalledTool.version, v)}

\* C2: a call of download_if_necessary whose index entry holds a version that
\* satisfies the requirement returns the greatest such version, calls no
\* provider and changes neither the index nor the tools directory; a provider is
\* called only when no indexed version satisfies the requirement.
CachedVersionWithoutProvider ==
    [][CallsDownloadIfNecessary =>
          /\ SatisfyingIndexed # {} =>
                /\ last' # None /\ last'[1].ok /\ last'[1].version # None
                /\ IsMax(last'[1].version[1], SatisfyingIndexed)
                /\ provider_log' = <<>>
                /\ cache' = cache
                /\ index_file' = index_file
                /\ tools_dir' = tools_dir
          /\ provider_log' # <<>> => SatisfyingIndexed = {}]_vars

\* A call answered from an index entry with two satisfying versions
CachedVersionWithoutProviderWitness ==
    /\ last # None /\ last[1].ok
    /\ provider_log = <<>>
    /\ last[1].tool = ToolLower10
    /\ last[1].version = Some(<<1, 1, 0>>)
    /\ \E e \in cache : {<<1, 0, 0>>, <<1, 1, 0>>} \subseteq e.versions
    /\ index_file.kind = "json"

\* The versions the tags of the listings stand for
VersionsListed == {<<major, minor, patch>> : major \in 0..2, minor \in 0..2, patch \in 0..2}

\* The tag is the version, written as it is or after one v
TagReads(tag_name, v) ==
    tag_name = FormatVersion(v) \/ tag_name = <<"v">> \o FormatVersion(v)

HasPlatformAsset(release) ==
    \E i \in 1..Len(release.assets), k \in 1..Len(PlatformKeywords) :
        Contains(release.assets[i].name, PlatformKeywords[k])

Candidates(listing) ==
    {v \in VersionsListed :
        \E i \in 1..Len(listing) :
            TagReads(listing[i].tag_name, v) /\ HasPlatformAsset(listing[i])}

\* C3: of the listing a provider returned, the candidates are the releases whose
\* tag is a version, as it is or after one leading v, and that have an asset for
\* the platform; the other releases are dropped and fail nothing; the version
\* installed and returned is the greatest candidate that satisfies the requirement.
DownloadInstallsGreatestCandidate ==
    (last # None /\ provider_log # <<>> /\ provider_log[1].ok) =>
        LET listing == provider_log[1].releases
            satisfying == {v \in Candidates(listing) : Matches(last[1].tool.version, v)}
        IN  /\ satisfying = {} <=> last[1].error = "NoCompatibleVersionFound"
            /\ Len(provider_log) > 1 =>
                  \E i \in 1..Len(listing) : \E j \in 1..Len(listing[i].assets) :
                      /\ \E v \in satisfying : IsMax(v, satisfying) /\ TagReads(listing[i].tag_name, v)
                      /\ provider_log[2].target = listing[i].assets[j].url
            /\ last[1].ok =>
                  /\ last[1].version # None
                  /\ IsMax(last[1].version[1], satisfying)
                  /\ \E e \in cache :
                        /\ CiEq(e.key, CacheKey(last[1].tool))
                        /\ last[1].version[1] \in e.versions

\* A listing, oldest first and with releases to drop, from which 1.1.0 is installed
DownloadInstallsGreatestCandidateWitness ==
    /\ last # None /\ last[1].ok
    /\ provider_log # <<>> /\ provider_log[1].releases = ListFull
    /\ last[1].tool = ToolLower10
    /\ last[1].version = Some(<<1, 1, 0>>)

\* The path under tools/ of a pair of the persisted index
IndexedExeName(key, version) ==
    Replace(Replace(key \o <<"-">> \o version \o EXE_SUFFIX, "/", <<"_", "_">>),
            "\\", <<"_", "_">>)

\* C4: every pair of cache key and version of the persisted index has an
\* executable file at tools/<cache key, / and \ replaced by __>-<version><suffix>.
IndexedVersionsHaveExecutables ==
    index_file.kind = "json" =>
        \A e \in index_file.entries : \A i \in 1..Len(e.versions) :
            IsExecutable(tools_dir, IndexedExeName(e.key, e.versions[i]))

ShimRunsToolWithArguments ==
    (pc = "exited" /\ argv # <<>> /\ argv[1] # Foreman /\ last # None /\ last[1].ok) =>
        LET tool_path == ToolIdentifierToExeName(last[1].tool, last[1].version[1])
        IN  IsExecutable(tools_dir, tool_path) =>
                /\ child # None
                /\ child[1].path = tool_path
                /\ child[1].args = SubSeq(argv, 2, Len(argv))
                /\ child[1].status # None => exit_status = child[1].status

\* The child has exited with 2, and so has the manager
ShimRunsToolWithArgumentsWitness ==
    /\ pc = "exited"
    /\ child # None
    /\ child[1].args = <<<<"-", "v">>>>
    /\ child[1].status = Some(2)
    /\ exit_status = Some(2)

InstallMode == argv # <<>> /\ argv[1] = Foreman

\* The walk of install has begun: the manifest and the index were read
Walking ==
    /\ InstallMode
    /\ pc \in {"install", "exited"}
    /\ config # None
    /\ error.kind # "ToolCacheParse"

Aliases(visits) == [i \in 1..Len(visits) |-> visits[i].alias]

FailedVisit(visit) == ~(visit.downloaded /\ visit.aliased)

InKeyOrder(aliases, keys) ==
    /\ Len(aliases) = Cardinality(keys)
    /\ {aliases[i] : i \in 1..Len(aliases)} = keys
    /\ \A i, j \in 1..Len(aliases) : i < j => StrLess(aliases[i], aliases[j])

\* C7: install attempts every tool of the aggregated manifest, one at a time and
\* in key order, also after a tool has failed; it fails with ToolsNotDownloaded
\* if and only if a tool failed, the error listing the failed aliases; bin/<alias>
\* is made only for a tool whose download succeeded.
InstallAttemptsEveryTool ==
    /\ [](Walking =>
            /\ InKeyOrder(Aliases(log) \o pending, DOMAIN config[1].tools)
            /\ \A i \in 1..Len(log) : log[i].aliased => log[i].downloaded
            /\ pc = "exited" =>
                  /\ pending = <<>>
                  /\ error.kind = "ToolsNotDownloaded" <=>
                        \E i \in 1..Len(log) : FailedVisit(log[i])
                  /\ error.tools = Aliases(SelectSeq(log, FailedVisit))
                  /\ exit_status =
                        Some(IF \E i \in 1..Len(log) : FailedVisit(log[i]) THEN 1 ELSE 0))
    /\ [][/\ (pc = "install" /\ pending # <<>>) =>
                /\ Len(log') = Len(log) + 1
                /\ log'[Len(log')].alias = Head(pending)
                /\ pending' = Tail(pending)
          /\ bin_dir' # bin_dir =>
                /\ pc = "install" /\ pending # <<>>
                /\ last'[1].ok
                /\ \A name \in DOMAIN bin_dir' :
                      (name \notin DOMAIN bin_dir \/ bin_dir'[name] # bin_dir[name]) =>
                          name = Head(pending)]_vars

\* The first tool of the walk failed, the second was installed and has its shim
InstallAttemptsEveryToolWitness ==
    /\ pc = "exited"
    /\ InstallMode
    /\ Len(log) = 2
    /\ ~log[1].downloaded
    /\ log[2].downloaded /\ log[2].aliased
    /\ error.kind = "ToolsNotDownloaded"
    /\ error.tools = <<AliasB>>
    /\ AliasA \in DOMAIN bin_dir
    /\ AliasB \notin DOMAIN bin_dir

\* The manifest the invocation aggregates
Aggregated == Aggregate(world[1].dirs, world[1].home)

\* The invocation is in shim mode under a name the aggregated manifest does not have
UnknownAlias ==
    /\ pc # "idle"
    /\ argv[1] # Foreman
    /\ Aggregated.ok
    /\ argv[1] \notin DOMAIN Aggregated.config[1].tools

\* C8: in shim mode under a name that is no alias of the aggregated manifest, the
\* manager fails with ToolNotInstalled, which carries the working directory and
\* the aggregated manifest; the index is not modified, no provider is called, no
\* child is spawned, and the manager exits with status 1.
UnknownAliasFails ==
    /\ [](UnknownAlias =>
            /\ pc = "exited"
            /\ error.kind = "ToolNotInstalled"
            /\ error.name = argv[1]
            /\ error.current_path = world[1].cwd
            /\ error.config_file = Aggregated.config
            /\ provider_log = <<>>
            /\ last = None
            /\ child = None
            /\ exit_status = Some(1))
    /\ [][(pc' = "exited" /\ error'.kind = "ToolNotInstalled") =>
              /\ index_file' = index_file
              /\ tools_dir' = tools_dir
              /\ bin_dir' = bin_dir]_vars

\* An unknown name, in a directory with manifests and on a root with an index
UnknownAliasFailsWitness ==
    /\ pc = "exited"
    /\ argv[1] = AliasZ
    /\ world[1].cwd = <<"/", "p", "/", "q">>
    /\ error.kind = "ToolNotInstalled"
    /\ error.config_file # None /\ DOMAIN error.config_file[1].tools = {AliasA, AliasB}
    /\ index_file.kind = "json" /\ index_file.entries # {}
    /\ exit_status = Some(1)

\* The step is one in which ToolCache::load is called
CallsLoad ==
    \/ pc = "shim_resolved"
    \/ pc \in {"idle", "exited"} /\ argv' # <<>> /\ argv'[1] = Foreman /\ config' # None

\* C10: load returns an empty cache when tool-cache.json is absent and fails with
\* ToolCacheParse when the file is there and is no serialization; the file is
\* neither created nor reset nor modified.
LoadLeavesFileAlone ==
    [][CallsLoad =>
          /\ index_file' = index_file
          /\ index_file.kind = "absent" =>
                /\ cache' = {}
                /\ error'.kind = ""
                /\ pc' # "exited"
          /\ index_file.kind = "garbage" =>
                /\ error'.kind = "ToolCacheParse"
                /\ pc' = "exited"
                /\ exit_status' = Some(1)]_vars

\* An invocation has failed on an index that is no serialization, which is still there
LoadLeavesFileAloneWitness ==
    /\ pc = "exited"
    /\ error.kind = "ToolCacheParse"
    /\ index_file = GarbageIndex

\* C11: save persists the index atomically: whatever a step does, also one whose
\* save is interrupted or fails midway, tool-cache.json afterwards holds its
\* previous contents or the complete serialization of the saved cache.
SaveIsAtomic ==
    [][index_file' = index_file \/ index_file' = JsonIndex(Serialize(cache'))]_vars

\* The paths under tools/ of the pairs of the persisted index
InstalledNames ==
    IF index_file.kind # "json" THEN {}
    ELSE UNION {{IndexedExeName(e.key, e.versions[i]) : i \in 1..Len(e.versions)} :
                   e \in index_file.entries}

----------------------------------------------------------------------------
\* What is checked of installs running at the same time (SpecConcurrent)

NobodyWrites == \A p \in Procs : procs[p].pc # "writing"

\* The (cache key, version) pairs a process saved that the persisted index lacks
LostPairs(p) ==
    {pair \in UNION {{<<e.key, e.versions[i]>> : i \in 1..Len(e.versions)} :
                        e \in procs[p].contents.entries} :
        ~(/\ index_file.kind = "json"
          /\ \E e \in index_file.entries :
                e.key = pair[1] /\ \E i \in 1..Len(e.versions) : e.versions[i] = pair[2])}

\* The persisted index holds a version that satisfies the tool's requirement
IndexSatisfies(tool) ==
    /\ index_file.kind = "json"
    /\ \E e \in Deserialize(index_file.entries) :
          CiEq(e.key, CacheKey(tool)) /\ \E v \in e.versions : Matches(tool.version, v)

\* C12: when installs run at the same time on one root, once no write is under way
\* the persisted index is the copy of the process that wrote last; a pair that a
\* process saved and the index lost still has its executable in tools/; and an
\* install that ran with no other beside it leaves the index with a satisfying
\* version for each tool of its manifest.
ConcurrentInstallsLastWriterWins ==
    NobodyWrites =>
        /\ last_writer # None => index_file = procs[last_writer[1]].contents
        /\ \A p \in Procs : \A pair \in LostPairs(p) :
              IsExecutable(tools_dir, IndexedExeName(pair[1], pair[2]))
        /\ \A p \in Procs :
              (procs[p].pc = "exited" /\ procs[p].solo) =>
                  \A alias \in DOMAIN procs[p].tools : IndexSatisfies(procs[p].tools[alias])

----------------------------------------------------------------------------
\* What is checked of ToolSpec::from_value and cache_key (SpecToolSpec)

IsTable == tool_value.type = "table"

\* The keys of the entry, besides version, that name a host of the host table
HostKeys == (DOMAIN tool_value.map \cap DOMAIN host_map) \ {KeyVersion}

WellFormed ==
    /\ KeyVersion \in DOMAIN tool_value.map
    /\ tool_value.map[KeyVersion].type = "string"
    /\ ParseReq(tool_value.map[KeyVersion].str) # None
    /\ Cardinality(HostKeys) = 1
    /\ \A k \in HostKeys : tool_value.map[k].type = "string"
    /\ DOMAIN tool_value.map = {KeyVersion} \cup HostKeys

\* C14: from_value accepts a table exactly when it has a string version that
\* parses as a requirement, exactly one other key that names a host and holds a
\* string, and no further key; it then gives that host's URL and protocol, the
\* string as the path and the requirement; everything else is a tool parse error.
FromValueAcceptsWellFormed ==
    parsed.done =>
        /\ parsed.ok <=> (IsTable /\ WellFormed)
        /\ ~parsed.ok => (parsed.error = "Tool" /\ parsed.tool = None)
        /\ parsed.ok =>
              \A k \in HostKeys :
                  parsed.tool[1] = ToolSpec(host_map[k].protocol, host_map[k].source,
                                            tool_value.map[k].str,
                                            ParseReq(tool_value.map[KeyVersion].str)[1])

\* An entry accepted, read with a host table that also has a host named version
FromValueAcceptsWellFormedWitness ==
    /\ parsed.done
    /\ parsed.ok
    /\ KeyVersion \in DOMAIN host_map
    /\ parsed.tool[1].protocol = "Github"

NamesProtocol(protocols) ==
    /\ IsTable
    /\ Cardinality(HostKeys) = 1
    /\ \A k \in HostKeys : host_map[k].protocol \in protocols

\* C15 as the specification states it: an entry whose host key names an
\* artifactory host is rejected without a path key, and an entry whose host key
\* names a github or gitlab host is rejected with one.
PathKeyRequiredForArtifactory ==
    parsed.done =>
        /\ (NamesProtocol({"Artifactory"}) /\ KeyPath \notin DOMAIN tool_value.map)
              => ~parsed.ok
        /\ (NamesProtocol({"Github", "Gitlab"}) /\ KeyPath \in DOMAIN tool_value.map)
              => ~parsed.ok

\* C15, amended: path is a key like any other that names no host: an entry that
\* has it is rejected with a tool parse error whatever the protocol of its host
\* key, and an artifactory entry of a version and the host key alone is accepted,
\* the host key's string being its path.
PathKeyAlwaysRejected ==
    (parsed.done /\ IsTable) =>
        /\ KeyPath \in DOMAIN tool_value.map => (~parsed.ok /\ parsed.error = "Tool")
        /\ (NamesProtocol({"Artifactory"}) /\ WellFormed) =>
              /\ parsed.ok
              /\ parsed.tool[1].protocol = "Artifactory"
              /\ \A k \in HostKeys : parsed.tool[1].path = tool_value.map[k].str

\* An artifactory entry without a path key, accepted
PathKeyAlwaysRejectedWitness ==
    /\ parsed.done
    /\ parsed.ok
    /\ NamesProtocol({"Artifactory"})
    /\ DOMAIN tool_value.map = {KeyVersion, KeyArt}

\* C20: the cache key of a github specification is its path, whatever its host and
\* requirement; that of a gitlab specification is gitlab@ and then the path; that
\* of an artifactory specification is the host, @, and then the path.
CacheKeyIsReferenceDerivation ==
    cache_key # None =>
        LET tool == parsed.tool[1]
            k == cache_key[1]
            prefix == CASE tool.protocol = "Github" -> <<>>
                        [] tool.protocol = "Gitlab" -> <<"g", "i", "t", "l", "a", "b", "@">>
                        [] tool.protocol = "Artifactory" -> tool.host \o <<"@">>
        IN  /\ Len(k) = Len(prefix) + Len(tool.path)
            /\ SubSeq(k, 1, Len(prefix)) = prefix
            /\ SubSeq(k, Len(prefix) + 1, Len(k)) = tool.path

\* The cache key of a github specification whose host is not the default one
CacheKeyIsReferenceDerivationWitness ==
    /\ cache_key # None
    /\ parsed.tool[1].protocol = "Github"
    /\ parsed.tool[1].host = ForgeHost
    /\ cache_key[1] = PathUpper

----------------------------------------------------------------------------
\* What is checked of a download that finds no version (Spec)

\* C16: when the provider's listing holds no candidate that satisfies the
\* requirement, download fails with NoCompatibleVersionFound, its list holds the
\* versions of the candidates (tag a version, asset for the platform), each
\* once per candidate release and greatest first; no asset is downloaded and
\* nothing is written.
NoCompatibleVersionListsCandidates ==
    (last # None /\ provider_log # <<>> /\ provider_log[1].ok) =>
        LET listing == provider_log[1].releases
            available == last[1].available_versions
            candidates == Candidates(listing)
        IN  (\A v \in candidates : ~Matches(last[1].tool.version, v)) =>
                /\ ~last[1].ok
                /\ last[1].error = "NoCompatibleVersionFound"
                /\ {available[i] : i \in 1..Len(available)} = candidates
                /\ Len(available) =
                      Cardinality({i \in 1..Len(listing) :
                                      /\ HasPlatformAsset(listing[i])
                                      /\ \E v \in VersionsListed : TagReads(listing[i].tag_name, v)})
                /\ \A i \in 1..(Len(available) - 1) :
                      ~VersionLess(available[i], available[i + 1])
                /\ Len(provider_log) = 1
                /\ last[1].wrote = None

\* Requirement ^2.0 against the releases 1.0.0 and v1.1.0: the list is 1.1.0, 1.0.0
NoCompatibleVersionListsCandidatesWitness ==
    /\ last # None
    /\ last[1].error = "NoCompatibleVersionFound"
    /\ last[1].tool = ToolUpper20
    /\ last[1].available_versions = <<<<1, 1, 0>>, <<1, 0, 0>>>>
    /\ Len(provider_log) = 1

----------------------------------------------------------------------------
\* What is checked of GithubProvider::get_releases (SpecGithub)

\* The next page a response names: none without a link header
NamedNext(response) == IF response.link = None THEN None ELSE response.link[1].next

PageFails(response) == ~response.sent \/ ~response.parses

RECURSIVE Concatenation(_)
Concatenation(pages) ==
    IF pages = <<>> THEN <<>> ELSE pages[1].releases \o Concatenation(Tail(pages))

\* C17: get_releases requests the first page of the repository and then the page
\* each response names as next, one request per response; it goes on exactly
\* while the last response came, parsed and names a next page; it returns the
\* releases of all pages in the order of the requests when the last response names
\* none, and fails with no list as soon as a request or the parsing of a body fails.
GithubFollowsNextLinks ==
    /\ Len(gh_log) = Len(gh_pages)
    /\ \A i \in 1..Len(gh_log) :
          /\ i = 1 => \E repo \in {PathLower, PathUpper} : gh_log[i] = FirstUrl(repo)
          /\ i > 1 =>
                /\ ~PageFails(gh_pages[i - 1])
                /\ NamedNext(gh_pages[i - 1]) = Some(gh_log[i])
    /\ gh_pages # <<>> =>
          LET final == gh_pages[Len(gh_pages)]
          IN  /\ gh_out.done <=> (PageFails(final) \/ NamedNext(final) = None)
              /\ gh_out.done =>
                    /\ gh_out.ok <=> ~PageFails(final)
                    /\ gh_out.ok => gh_out.releases = Concatenation(gh_pages)
                    /\ ~gh_out.ok =>
                          /\ gh_out.releases = <<>>
                          /\ gh_out.error = IF final.sent THEN "UnexpectedResponseBody"
                                            ELSE "RequestFailed"

\* Three pages, the third found through a header that names other relations too;
\* four releases in all
GithubFollowsNextLinksWitness ==
    /\ gh_out.done
    /\ gh_out.ok
    /\ gh_log = <<FirstUrl(PathLower), <<"u", "2">>, <<"u", "3">>>>
    /\ Len(gh_out.releases) = 4

----------------------------------------------------------------------------
\* What is checked of ArtifactoryProvider::get_releases (SpecArtifactory)

\* The asset names, in listed order, of the listed URIs that stand for version
RECURSIVE NamesListed(_, _)
NamesListed(files, version) ==
    IF files = <<>> THEN <<>>
    ELSE (IF files[1].stands_for # None /\ files[1].stands_for[1][1] = version
          THEN <<files[1].stands_for[1][2]>> ELSE <<>>)
         \o NamesListed(Tail(files), version)

VersionsStoodFor ==
    {art_files[i].stands_for[1][1] : i \in {j \in 1..Len(art_files) : art_files[j].stands_for # None}}

\* C18: a listing that was received and parsed never fails the call, whatever
\* its URIs; the releases returned are one per version that a URI of the form
\* /<version>/<asset_name> stands for, with that version as tag_name and
\* prerelease false, and the assets of a release are one per such URI, named by
\* the URI's asset name, in listed order; the other URIs contribute nothing.
ArtifactoryGroupsByVersion ==
    art_out.done =>
        /\ art_out.ok <=> art_out.error = ""
        /\ art_out.ok =>
              LET releases == art_out.releases
              IN  /\ {releases[i].tag_name : i \in 1..Len(releases)} = VersionsStoodFor
                  /\ Len(releases) = Cardinality(VersionsStoodFor)
                  /\ \A i \in 1..Len(releases) :
                        /\ releases[i].prerelease = FALSE
                        /\ AssetNamesOf(releases[i]) = NamesListed(art_files, releases[i].tag_name)

\* Two assets of version 1 with a URI of three segments between them
ArtifactoryGroupsByVersionWitness ==
    /\ art_out.done
    /\ art_out.ok
    /\ Len(art_files) = 3
    /\ art_files[2].stands_for = None
    /\ Len(art_out.releases) = 1
    /\ Len(art_out.releases[1].assets) = 2

----------------------------------------------------------------------------
\* What is checked of ForemanPaths::create_all (SpecCreateAll)

\* C19: a call of create_all leaves foreman.toml and auth.toml as they are when
\* they exist, whatever they hold; a file it writes did not exist and holds the
\* default; after a call that succeeded the three directories and both files exist.
CreateAllWritesOnlyAbsent ==
    /\ [][/\ foreman_home.user_config # None
             => foreman_home'.user_config = foreman_home.user_config
          /\ foreman_home.auth_store # None
             => foreman_home'.auth_store = foreman_home.auth_store
          /\ "user_config" \in create_all_out'.wrote
             => (/\ foreman_home.user_config = None
                 /\ foreman_home'.user_config = Some(DEFAULT_USER_CONFIG))
          /\ "auth_store" \in create_all_out'.wrote
             => (/\ foreman_home.auth_store = None
                 /\ foreman_home'.auth_store = Some(DEFAULT_AUTH_CONFIG))]_vars
    /\ [](create_all_out.ok =>
             /\ foreman_home.root_dir /\ foreman_home.bin_dir /\ foreman_home.tools_dir
             /\ foreman_home.user_config # None
             /\ foreman_home.auth_store # None)

\* A root whose foreman.toml reads invalid: the call wrote auth.toml alone
CreateAllWritesOnlyAbsentWitness ==
    /\ create_all_out.calls = 1
    /\ create_all_out.ok
    /\ create_all_out.wrote = {"auth_store"}
    /\ foreman_home.user_config = Some("invalid")
    /\ foreman_home.auth_store = Some(DEFAULT_AUTH_CONFIG)

----------------------------------------------------------------------------
\* What is checked of the cache keys of two specifications (SpecCacheKeys)

Protocols(first, second) ==
    spec_pair[1].protocol = first /\ spec_pair[2].protocol = second

\* C21: the cache key of a github specification and that of a gitlab
\* specification whose paths are equal up to the case of their letters are
\* unequal under CiString's comparison.
ForgeKeysDisjointForEqualPaths ==
    (/\ key_pair # None
     /\ Protocols("Github", "Gitlab")
     /\ CiEq(spec_pair[1].path, spec_pair[2].path))
        => ~CiEq(key_pair[1].keys[1], key_pair[1].keys[2])

\* a/b on github and A/b on gitlab
ForgeKeysDisjointForEqualPathsWitness ==
    /\ key_pair # None
    /\ Protocols("Github", "Gitlab")
    /\ spec_pair[1].path = PathLower
    /\ spec_pair[2].path = PathUpper
    /\ key_pair[1].keys[1] = PathLower

\* C27: the cache keys of two specifications of different protocols never compare
\* equal, whatever their paths and hosts, and so their executables for one
\* version never have one file name.
ProtocolsNeverShareKey ==
    (key_pair # None /\ spec_pair[1].protocol # spec_pair[2].protocol) =>
        /\ ~CiEq(key_pair[1].keys[1], key_pair[1].keys[2])
        /\ key_pair[1].exe_names[1] # key_pair[1].exe_names[2]

----------------------------------------------------------------------------
\* What is checked of specifications that differ in case (SpecVariants)

\* C25: whenever download_if_necessary returns a version for a specification,
\* also one whose path differs only in case from the path the version was
\* installed under, the index holds one entry for its key and the file
\* tools/<tool_identifier_to_exe_name of the specification and version>, the
\* path run executes, is the executable the install wrote.
CaseVariantsShareExecutable ==
    (variant_last # None /\ variant_last[1].ok) =>
        /\ Cardinality(GetEntry(Load(index_file).tools, CacheKey(variant_last[1].tool))) = 1
        /\ IsExecutable(tools_dir, variant_last[1].tool_path[1])

\* C22: generate_artifactory_path succeeds if and only if the operating system is one
\* of windows, macos, linux, the version is v followed by a complete semantic
\* version, and the architecture is absent or one of x86_64, arm64, aarch64, i686;
\* on success the result is
\* artifactory/<repo>/<tool>/<version>/<tool>-<version>-<os>[-<arch>].zip, otherwise
\* no path is produced.
ExpectedArtifactoryPath(a) ==
    <<"a", "r", "t", "i", "f", "a", "c", "t", "o", "r", "y", "/">> \o a.repo \o <<"/">> \o a.tool_name \o <<"/">> \o a.version.text \o <<"/">>
    \o a.tool_name \o <<"-">> \o a.version.text \o <<"-">> \o a.operating_system
    \o (IF a.architecture = None THEN <<>> ELSE <<"-">> \o a.architecture[1])
    \o <<".", "z", "i", "p">>

ArtifactoryPathArgsValid(a) ==
    /\ a.operating_system \in {<<"w", "i", "n", "d", "o", "w", "s">>, <<"m", "a", "c", "o", "s">>, <<"l", "i", "n", "u", "x">>}
    /\ a.version.complete
    /\ \/ a.architecture = None
       \/ a.architecture[1] \in {<<"x", "8", "6", "_", "6", "4">>, <<"a", "r", "m", "6", "4">>, <<"a", "a", "r", "c", "h", "6", "4">>, <<"i", "6", "8", "6">>}

ArtifactoryPathExactlyForValidArguments ==
    path_out # None =>
        IF ArtifactoryPathArgsValid(path_args)
        THEN path_out[1] = Some(ExpectedArtifactoryPath(path_args))
        ELSE path_out[1] = None

ArtifactoryPathExactlyForValidArgumentsWitness ==
    /\ path_out # None
    /\ path_out[1] # None
    /\ path_args.architecture # None
    /\ path_args.operating_system = <<"l", "i", "n", "u", "x">>

\* C23: in every interleaving of the child's end and the arrival of signals, once
\* the child has terminated run eventually returns or the process exits, and a join
\* of the signal thread that was started eventually finds the thread finished,
\* because the handle is closed before it; also when a signal arrives between the
\* child's exit and the close, or when a signal and the child's exit are ready
\* together.
RunEnded == run_pc \in {"returned", "exited"}

TerminatedChildEndsRun ==
    /\ (run_child.state = "terminated") ~> RunEnded
    /\ (run_pc \in {"child_join", "kill_join"}) ~> (signal_thread = "finished")

\* run has returned the child's code although the thread took a signal after the
\* branch of the child was chosen and before the handle was closed
TerminatedChildEndsRunWitness ==
    /\ run_pc = "returned"
    /\ received # None
    /\ received[1].at = "child_branch"

\* C24: the release and the asset download selects depend only on the collection of
\* releases the provider returns, not on their order: on two orders of one
\* collection, also one in which two tags are the same version, download picks the
\* same version and the same asset.
SelectionIgnoresOrder ==
    selected # None => selected[1][1] = selected[1][2]

\* The same for collections in which no two tags are the same version, which holds
TagsDistinctAsVersions(releases) ==
    \A i, j \in 1..Len(releases) :
        (i # j /\ ParseTag(releases[i].tag_name) # None)
            => ParseTag(releases[i].tag_name) # ParseTag(releases[j].tag_name)

SelectionIgnoresOrderOfDistinctVersions ==
    (selected # None /\ TagsDistinctAsVersions(release_lists[1]))
        => selected[1][1] = selected[1][2]

\* C26: if download returns an error at any step (listing the releases, no
\* compatible version, the download of the asset, opening the archive, extracting
\* the entry, setting the permissions, saving the index), the versions of the
\* in-memory index and the contents of tool-cache.json are the same as before the
\* call.
FailedDownloadLeavesIndex ==
    [][(last' # last /\ last' # None /\ ~last'[1].ok)
          => (cache' = cache /\ index_file' = index_file)]_vars

\* The same for the errors before the index is touched, which holds
FailedDownloadBeforeSaveLeavesIndex ==
    [][(last' # last /\ last' # None /\ ~last'[1].ok
        /\ (last'[1].wrote = None \/ last'[1].error # "Write"))
          => (cache' = cache /\ index_file' = index_file)]_vars

\* C28: a token stored by artifactory-auth <url> <token> for the URL of an
\* artifactory host is the token get_credentials returns for a tool hosted at that
\* URL: the key set_token writes is the key the provider's lookup uses.
StoredTokenIsFound ==
    (/\ auth_stored # None /\ auth_stored[1].ok /\ auth_stored[1].url = auth_host
     /\ auth_found # None /\ auth_found[1].ok /\ UrlDomain(UrlParse(auth_host)[1]) # None)
        => auth_found[1].credentials = Some(Credentials(<<>>, auth_stored[1].token))

\* C29: aggregate fails with a config parse error naming the offending file
\* whenever a foreman.toml of the chain (the working directory, an ancestor, the
\* user's file) does not parse or has no tools table, and returns no partial
\* manifest.
NoToolsTable(file) == file.kind \in {"missing_tools", "tools_not_table"}

Offending(file) == file.kind = "invalid" \/ NoToolsTable(file)

AggregateRejectsBrokenManifests ==
    (aggregated.done /\ \E i \in 1..Len(Chain) : Offending(Chain[i])) =>
        /\ ~aggregated.ok
        /\ aggregated.config = None
        /\ aggregated.failed_at \in 1..Len(Chain)
        /\ Offending(Chain[aggregated.failed_at])

\* The same for the manifests that do not parse or have no key tools, which holds
AggregateRejectsUnparsedOrToolless ==
    (aggregated.done /\ \E i \in 1..Len(Chain) : Chain[i].kind \in {"invalid", "missing_tools"}) =>
        /\ ~aggregated.ok
        /\ aggregated.config = None
        /\ aggregated.failed_at \in 1..Len(Chain)
        /\ Chain[aggregated.failed_at].kind \in {"invalid", "missing_tools"}

\* C30: the GitLab provider lists the releases from the host recorded in the tool
\* specification, at https://<host>/api/v4/projects/<URL-encoded repo>/releases, for
\* every host a manifest maps to the gitlab protocol.
GitlabListsFromRecordedHost ==
    gl_request # None =>
        gl_request[1].url = gl_tool.host \o <<"a", "p", "i", "/", "v", "4", "/", "p", "r", "o", "j", "e", "c", "t", "s", "/">> \o UrlEncode(gl_tool.path) \o <<"/", "r", "e", "l", "e", "a", "s", "e", "s">>

\* The same for the tools of gitlab.com, which holds
GitlabListsFromGitlabCom ==
    (gl_request # None /\ gl_tool.host = GITLAB) =>
        gl_request[1].url = gl_tool.host \o <<"a", "p", "i", "/", "v", "4", "/", "p", "r", "o", "j", "e", "c", "t", "s", "/">> \o UrlEncode(gl_tool.path) \o <<"/", "r", "e", "l", "e", "a", "s", "e", "s">>

====
